---- MODULE Spec2Model ----
(***************************************************************************)
(* A model of the simservice runtime: the lifecycle state machine of       *)
(* PySimService, the service manager's registries, the server-side         *)
(* service-function registry with the client-side receiver and its         *)
(* watcher thread, the dispatcher/worker pipe protocol, the service        *)
(* factory with the proxies' close(), the random walker test service, the  *)
(* attributes TypeProcessWrap.__init__ sets on a wrap instance, a          *)
(* lifecycle call on the command pipe next to the service-function pipe,   *)
(* the proxies' forwarded methods, the evaluators attached to a proxy on   *)
(* their endpoint pipes, and ExecutionContext.                             *)
(*                                                                         *)
(* Each part has its own specification (SpecLife, SpecFan, ...); a         *)
(* specification leaves the variables of the other parts unchanged.        *)
(***************************************************************************)
EXTENDS Integers, Sequences, FiniteSets, Bags, TLC

VARIABLES
    sims,       \* PySimService instances: one record of attributes per service
    log,        \* SpecLife: the calls made on service 1, each with what was observed after it
    caller,     \* SpecFan: the proxy the last lifecycle call was made on (0: none yet)
    ksteps,     \* SpecFan: per service, truthy steps since its last truthy start (-1: not started)
    mgr,        \* ServiceManagerLocal: its class attributes
    mgr_last,   \* SpecMgr: the last call made on the manager and how it ended
    reg,        \* ServiceFunctionRegistry (hosted process): its class attributes
    endpoints,  \* the endpoint pipes made by remote_function_factory, each with its worker
    sf_pipe,    \* service-function pipe: announcements sent and not yet received
    sf_sent,    \* every announcement sent on the service-function pipe so far
    svc_alive,  \* the hosted process runs (it holds the registry end of the pipe)
    reg_last,   \* the last registration call in the hosted process and how it ended
    receiver,   \* ServiceFunctionReceiver: the record of the service (name, table, pipe end)
    watcher,    \* _ServiceFunctionConnectionWorker: position, _added_functions, escaped exception
    proxy_attrs,    \* attributes the watcher has set on the proxy
    attach_count,   \* calls of the attribute adder, per function name
    conn,       \* a dispatcher/worker pipe: which of its two ends have been closed
    req,        \* frames written by the dispatchers and not yet read by the worker
    rep,        \* frames written by the worker and not yet read by a dispatcher
    callers,    \* the threads calling through the dispatcher end: position, values returned
    issued,     \* number of messages the dispatchers have sent
    worker,     \* RemoteFunctionWorker: position, escaped exception
    w_log,      \* what the worker loop did in each iteration: message, functor call, frames
    wraps,      \* TypeProcessWrap instances by process name: command pipe, container, close()
    process_registry,   \* service_factory.process_registry: the names it has a record for
    service_containers, \* ServiceFunctionReceiver.service_containers: the names it holds
    receiver_workers,   \* ServiceFunctionReceiver.workers: the names it holds a watcher for
    fac_last,   \* the last call of the factory module that completed, and how it ended
    drive,      \* SpecWalker: the driver of the random walker service and what it observed
    wrap_obj,   \* SpecProxy: a wrap instance as __init__ builds it, and the last attribute looked up
    cmd,        \* SpecOrder: the client's lifecycle call on the command pipe, and the calls returned
    ep,         \* SpecEndpoint: the frames on each endpoint pipe, and the caller of the attached evaluators
    ctx         \* SpecContext: an ExecutionContext around a body, and what it issued

lifeVars == <<sims, log, caller, ksteps>>

mgrVars == <<mgr, mgr_last>>

sfVars == <<reg, endpoints, sf_pipe, sf_sent, svc_alive, reg_last, receiver, watcher,
            proxy_attrs, attach_count>>

wireVars == <<conn, req, rep, callers, issued, worker, w_log>>

facVars == <<wraps, process_registry, service_containers, receiver_workers, fac_last>>

walkVars == <<drive>>

buildVars == <<wrap_obj>>

cmdVars == <<cmd>>

epVars == <<ep>>

ctxVars == <<ctx>>

vars == <<lifeVars, mgrVars, sfVars, wireVars, facVars, walkVars, buildVars, cmdVars, epVars, ctxVars>>

notLife == <<mgrVars, sfVars, wireVars, facVars, walkVars, buildVars, cmdVars, epVars, ctxVars>>

notMgr == <<lifeVars, sfVars, wireVars, facVars, walkVars, buildVars, cmdVars, epVars, ctxVars>>

notSF == <<lifeVars, mgrVars, wireVars, facVars, walkVars, buildVars, cmdVars, epVars, ctxVars>>

notWire == <<lifeVars, mgrVars, sfVars, facVars, walkVars, buildVars, cmdVars, epVars, ctxVars>>

notFac == <<lifeVars, sfVars, wireVars, walkVars, buildVars, cmdVars, epVars, ctxVars>>

notWalk == <<log, caller, ksteps, mgrVars, sfVars, wireVars, facVars, buildVars, cmdVars, epVars, ctxVars>>

notBuild == <<lifeVars, mgrVars, sfVars, wireVars, facVars, walkVars, cmdVars, epVars, ctxVars>>

notCmd == <<lifeVars, mgrVars, sfVars, wireVars, facVars, walkVars, buildVars, epVars,
            ctxVars>>

notEp == <<lifeVars, mgrVars, sfVars, wireVars, facVars, walkVars, buildVars, cmdVars,
           ctxVars>>

None == "None"

(***************************************************************************)
(* Bounds of the model.                                                    *)
(***************************************************************************)
NumSims == 2        \* services running at once (SpecFan)
MaxCalls == 5       \* lifecycle calls logged on one service (SpecLife)
MaxStep == 2        \* cap of current_step (SpecFan)
MaxMgrCalls == 4    \* calls made on the service manager (SpecMgr)
MaxRegCalls == 3    \* service_function calls made in the hosted process (SpecSF)
MaxRequests == 3    \* messages sent by the dispatchers of a pipe (SpecWire)
NumCallers == 2     \* threads that call through the dispatcher end of a pipe
MaxDeadRegCalls == 1    \* service_function calls in SpecDead
MaxDeadRequests == 1    \* messages sent by the dispatchers in SpecDead
MaxCloseCalls == 3      \* close() calls made on one proxy (SpecClose)
MaxProxyCalls == 2      \* forwarded method calls made on one proxy (SpecForward)

Sims == 1..NumSims

(***************************************************************************)
(* PySimService.py: SimStatus.                                             *)
(***************************************************************************)
SIM_REGISTERED == 0
SIM_LOADED == 1
SIM_INITIALIZED == 2
SIM_STARTED == 3
SIM_RUNNING == 4
SIM_STOPPED == 5
SIM_FINISHED == 6
SIM_FAILED == -1

SimStatus == {SIM_REGISTERED, SIM_LOADED, SIM_INITIALIZED, SIM_STARTED,
              SIM_RUNNING, SIM_STOPPED, SIM_FINISHED, SIM_FAILED}

\* The first steps a subclass's _start may choose (the default -1 is No Choice).
BeginSteps == {2}

(***************************************************************************)
(* PySimService.__init__: the attributes of a fresh instance.  They are    *)
(* instance attributes: every service has its own.                         *)
(***************************************************************************)
PySimService == [status |-> SIM_REGISTERED,
                 current_step |-> -1,
                 beginning_step |-> -1,
                 error_message |-> None]

\* Attribute assignment self.<field> = v on instance i of the services ss.
SetAttrShared(ss, i, field, v) == [j \in DOMAIN ss |-> [ss[j] EXCEPT ![field] = v]]

SetAttr(ss, i, field, v) == [ss EXCEPT ![i][field] = v]

(***************************************************************************)
(* The lifecycle operations, as functions of the services ss and the       *)
(* instance i they are called on.  The subclass hooks _run, _init, _start, *)
(* _step, _finish, _stop are abstract: a hook is modelled by its return    *)
(* value (the parameter *_status), and _start by the beginning_step it     *)
(* sets when it reports the simulation started.                            *)
(***************************************************************************)
run(ss, i) == SetAttr(ss, i, "status", SIM_LOADED)

initWhateverReturned(ss, i, init_status) == SetAttr(ss, i, "status", SIM_INITIALIZED)

init(ss, i, init_status) ==
    IF init_status THEN SetAttr(ss, i, "status", SIM_INITIALIZED) ELSE ss

\* _start: "Should set self.beginning_step to first first step of current_step counter"
hook_start(ss, i, start_status, b) ==
    IF start_status /\ b \in BeginSteps THEN SetAttr(ss, i, "beginning_step", b) ELSE ss

start(ss, i, start_status, b) ==
    LET h == hook_start(ss, i, start_status, b) IN
    IF start_status
    THEN SetAttr(SetAttr(h, i, "current_step", h[i].beginning_step),
                 i, "status", SIM_STARTED)
    ELSE h

stepNoCount(ss, i, step_status) ==
    IF step_status THEN SetAttr(ss, i, "status", SIM_RUNNING) ELSE ss

stepNoStatus(ss, i, step_status) ==
    IF step_status THEN SetAttr(ss, i, "current_step", ss[i].current_step + 1) ELSE ss

step(ss, i, step_status) ==
    IF step_status
    THEN SetAttr(SetAttr(ss, i, "status", SIM_RUNNING),
                 i, "current_step", ss[i].current_step + 1)
    ELSE ss

finish(ss, i) == SetAttr(ss, i, "status", SIM_FINISHED)

stopAsDocstring(ss, i, terminate_sim) ==
    SetAttr(ss, i, "status", IF terminate_sim THEN SIM_STOPPED ELSE SIM_FINISHED)

stop(ss, i, terminate_sim) ==
    SetAttr(ss, i, "status", IF terminate_sim THEN SIM_FINISHED ELSE SIM_STOPPED)

InitLifeVars ==
    /\ sims = [i \in {1} |-> PySimService]
    /\ log = <<>>
    /\ caller = 0
    /\ ksteps = [i \in {1} |-> -1]

(***************************************************************************)
(* managers.py: ServiceManagerLocal.  Its state is class attributes, one   *)
(* per process: the underlying manager (0 is None; a manager made on       *)
(* demand gets the next identity), the started flag, the two registries,   *)
(* the callables registered with the underlying manager class, and the     *)
(* attribute set on ServiceManagerLocal for each name: the creation method *)
(* bound to the manager that existed when the name was registered.         *)
(***************************************************************************)
ServiceNames == {"X", "Y"}

Wraps == {"W1", "W2"}

Functions == {"f1", "f2"}

Put(f, k, v) == [x \in DOMAIN f \cup {k} |-> IF x = k THEN v ELSE f[x]]

Empty == [x \in {} |-> None]

ServiceManagerLocal == [manager |-> 0,
                        created |-> 0,
                        started |-> FALSE,
                        service_registry |-> Empty,
                        function_registry |-> Empty,
                        callables |-> Empty,
                        bound |-> Empty,
                        served |-> {}]

on_demand_manager(m) ==
    IF m.manager = 0
    THEN [m EXCEPT !.manager = m.created + 1, !.created = m.created + 1]
    ELSE m

\* cls.manager.register(_name, _callable); setattr(cls, _name, getattr(manager, _name))
register_callable(m, name, callable) ==
    [m EXCEPT !.callables = Put(m.callables, name, callable),
              !.bound = Put(m.bound, name, m.manager)]

neverRegistered(registry, name) == FALSE

\* _service_name in cls.service_registry.keys()
already_registered(registry, name) == name \in DOMAIN registry

register_service(m, service_name, service_wrap) ==
    LET d == on_demand_manager(m) IN
    IF already_registered(d.service_registry, service_name)
    THEN [state |-> d, raised |-> "AttributeError"]
    ELSE [state |-> register_callable(
                        [d EXCEPT !.service_registry =
                                      Put(d.service_registry, service_name, service_wrap)],
                        service_name, service_wrap),
          raised |-> None]

register_function(m, function_name, func) ==
    LET d == on_demand_manager(m) IN
    IF already_registered(d.function_registry, function_name)
    THEN [state |-> d, raised |-> "AttributeError"]
    ELSE [state |-> register_callable(
                        [d EXCEPT !.function_registry =
                                      Put(d.function_registry, function_name, func)],
                        function_name, func),
          raised |-> None]

startAgain(m) ==
    LET d == on_demand_manager(m) IN
    [d EXCEPT !.started = TRUE, !.served = DOMAIN d.callables]

\* ServiceManagerLocal.start: BaseManager.start hands the server process the
\* callables registered so far.
manager_start(m) ==
    LET d == on_demand_manager(m) IN
    IF ~d.started
    THEN [d EXCEPT !.started = TRUE, !.served = DOMAIN d.callables]
    ELSE d

shutdownUnguarded(m) == [m EXCEPT !.manager = 0, !.started = FALSE, !.served = {}]

shutdown(m) ==
    IF m.started
    THEN [m EXCEPT !.manager = 0, !.started = FALSE, !.served = {}]
    ELSE m

\* managers.close_services: ServiceManagerLocal.shutdown()
close_services(m) == shutdown(m)

\* simservice.close(): close_services()
close(m) == close_services(m)

\* service_factory.registered_services: the keys of the service registry
\* followed by the keys of the function registry, as a list (here a bag: a
\* name in both registries is listed twice).
registered_services(m) ==
    SetToBag(DOMAIN m.service_registry) (+) SetToBag(DOMAIN m.function_registry)

registeredWhatever(m, name) == TRUE

is_registered(m, name) ==
    name \in DOMAIN m.service_registry \/ name \in DOMAIN m.function_registry

(***************************************************************************)
(* SpecMgr: any sequence of calls on the manager.                          *)
(***************************************************************************)
MgrCalled(op, name, arg, raised) ==
    /\ mgr_last.n < MaxMgrCalls
    /\ mgr_last' = [n |-> mgr_last.n + 1, op |-> op, name |-> name,
                    arg |-> arg, raised |-> raised]
    /\ UNCHANGED notMgr

MgrRegisterService ==
    \E name \in ServiceNames, wrap \in Wraps :
        LET r == register_service(mgr, name, wrap) IN
        /\ mgr' = r.state
        /\ MgrCalled("register_service", name, wrap, r.raised)

MgrRegisterFunction ==
    \E name \in ServiceNames, func \in Functions :
        LET r == register_function(mgr, name, func) IN
        /\ mgr' = r.state
        /\ MgrCalled("register_function", name, func, r.raised)

MgrStart ==
    /\ mgr' = manager_start(mgr)
    /\ MgrCalled("start", None, None, None)

MgrShutdown ==
    /\ mgr' = shutdown(mgr)
    /\ MgrCalled("shutdown", None, None, None)

\* simservice.close()
MgrClose ==
    /\ mgr' = close(mgr)
    /\ MgrCalled("close", None, None, None)

InitMgrVars ==
    /\ mgr = ServiceManagerLocal
    /\ mgr_last = [n |-> 0, op |-> None, name |-> None, arg |-> None, raised |-> None]

(***************************************************************************)
(* ServiceFunctionRegistry.py (hosted process) and messages.py:            *)
(* remote_function_factory, ServiceFunctionConnectionMessage.              *)
(*                                                                         *)
(* A function object is named by its __name__.  An evaluator is named by   *)
(* the endpoint pipe it holds one end of.                                  *)
(***************************************************************************)
ProcessNames == {"0x1", "0x2"}

FunctionObjects == {"get_pos", "set_pos"}

GivenNames == {None, "ping"}

FunctionNames == FunctionObjects \cup (GivenNames \ {None})

ServiceFunctionRegistry(process_name) ==
    [receiver_conn |-> "sfunc_registry_conn",
     process_name |-> process_name,
     workers |-> Empty]

\* The registry class as it is defined: no parent has installed a pipe or a name.
NoService == [receiver_conn |-> None, process_name |-> None, workers |-> Empty]

sharedPipe(eps) == 1

\* messages.remote_function_factory: a fresh pipe, its evaluator and its started worker
remote_function_factory(eps) == Cardinality(eps) + 1

messageNamingTheService(service_name, function_name, evaluator) ==
    [service_name |-> service_name, function_name |-> service_name,
     evaluator |-> evaluator]

ServiceFunctionConnectionMessage(service_name, function_name, evaluator) ==
    [service_name |-> service_name, function_name |-> function_name,
     evaluator |-> evaluator]

nameNeverTaken(workers, function_name) == FALSE

\* function_name in cls.workers.keys()
name_taken(workers, function_name) == function_name \in DOMAIN workers

alwaysAService(r) == FALSE

\* cls.receiver_conn is None
not_a_service(r) == r.receiver_conn = None

\* ServiceFunctionRegistry.register_function: the registry after the call, the
\* endpoints after it, what it sent on the pipe, and the exception it raised.
registry_register_function(r, eps, func, function_name) ==
    LET name == IF function_name = None THEN func ELSE function_name
        e == remote_function_factory(eps)
    IN  IF not_a_service(r)
        THEN [reg |-> r, endpoints |-> eps, sent |-> <<>>, raised |-> "NotAServiceError"]
        ELSE IF name_taken(r.workers, name)
        THEN [reg |-> r, endpoints |-> eps, sent |-> <<>>, raised |-> "ValueError"]
        ELSE [reg |-> [r EXCEPT !.workers = Put(r.workers, name,
                                                [func |-> func, worker |-> e])],
              endpoints |-> eps \cup {e},
              sent |-> <<ServiceFunctionConnectionMessage(r.process_name, name, e)>>,
              raised |-> None]

\* service_function: NotAServiceError becomes a logged warning, anything else propagates
service_function(r, eps, func, function_name) ==
    LET o == registry_register_function(r, eps, func, function_name) IN
    IF o.raised = "NotAServiceError"
    THEN [reg |-> o.reg, endpoints |-> o.endpoints, sent |-> o.sent,
          raised |-> None, warned |-> TRUE]
    ELSE [reg |-> o.reg, endpoints |-> o.endpoints, sent |-> o.sent,
          raised |-> o.raised, warned |-> FALSE]

(***************************************************************************)
(* ServiceFunctionReceiver.py (client process).                            *)
(***************************************************************************)
ServiceFunctionContainer == Empty

\* ServiceFunctionReceiver.register_service: the record of the service and its watcher
ReceiverRecord(service_name) ==
    [service_name |-> service_name,
     sfuncs |-> ServiceFunctionContainer,
     conn_closed |-> FALSE]

ConnectionWorker == [pc |-> "check", added_functions |-> {}, exc |-> None]

rejectsNone(process_name, service_name) == FALSE

\* process_name != service_name
rejects(process_name, service_name) == process_name # service_name

RECURSIVE flush_connection(_, _, _)
\* ServiceFunctionReceiver._flush_connection: the endpoint table after receiving
\* the pending announcements q (the loop ends when poll() is false; when the
\* other end is gone the recv() after the last announcement raises EOFError)
flush_connection(sfuncs, q, service_name) ==
    IF q = <<>> THEN sfuncs
    ELSE LET msg == Head(q) IN
         flush_connection(
             IF rejects(msg.service_name, service_name)
             THEN sfuncs
             ELSE Put(sfuncs, msg.function_name, msg.evaluator),
             Tail(q), service_name)

\* f_name not in self._added_functions
toAdd(sfuncs, added_functions) == DOMAIN sfuncs \ added_functions

\* Connection.poll(): data is pending, or the other end is gone (EOF is readable)
poll(q, alive) == q # <<>> \/ ~alive

(***************************************************************************)
(* The hosted process.                                                     *)
(***************************************************************************)
\* A lifecycle method of the hosted simulation calls service_function(func, name).
SvcServiceFunction(max) ==
    \E func \in FunctionObjects, function_name \in GivenNames :
        LET o == service_function(reg, endpoints, func, function_name) IN
        /\ svc_alive
        /\ reg_last.n < max
        /\ reg' = o.reg
        /\ endpoints' = o.endpoints
        /\ sf_pipe' = sf_pipe \o o.sent
        /\ sf_sent' = sf_sent \o o.sent
        /\ reg_last' = [n |-> reg_last.n + 1, op |-> "service_function",
                        func |-> func,
                        name |-> IF function_name = None THEN func ELSE function_name,
                        raised |-> o.raised, warned |-> o.warned]
        /\ UNCHANGED <<svc_alive, receiver, watcher, proxy_attrs, attach_count>>
        /\ UNCHANGED notSF

\* ServiceFunctionRegistry.register_function(func, function_name) called directly
RegRegisterFunction(max) ==
    \E func \in FunctionObjects, function_name \in GivenNames :
        LET o == registry_register_function(reg, endpoints, func, function_name) IN
        /\ svc_alive
        /\ reg_last.n < max
        /\ reg' = o.reg
        /\ endpoints' = o.endpoints
        /\ sf_pipe' = sf_pipe \o o.sent
        /\ sf_sent' = sf_sent \o o.sent
        /\ reg_last' = [n |-> reg_last.n + 1, op |-> "register_function",
                        func |-> func,
                        name |-> IF function_name = None THEN func ELSE function_name,
                        raised |-> o.raised, warned |-> FALSE]
        /\ UNCHANGED <<svc_alive, receiver, watcher, proxy_attrs, attach_count>>
        /\ UNCHANGED notSF

\* TypeProcessWrap.close: self._container.terminate().  The process is gone and
\* with it the registry end of the service-function pipe; what it sent stays readable.
SvcTerminate ==
    /\ svc_alive
    /\ svc_alive' = FALSE
    /\ UNCHANGED <<reg, endpoints, sf_pipe, sf_sent, reg_last, receiver, watcher,
                   proxy_attrs, attach_count>>
    /\ UNCHANGED notSF

(***************************************************************************)
(* The watcher thread: run() calls _check_connection under safe_transmit   *)
(* until it returns None.                                                  *)
(***************************************************************************)
\* if self._sfunc_reg_conn.closed: return None
WatcherCheckClosed ==
    /\ watcher.pc = "check"
    /\ watcher' = [watcher EXCEPT !.pc = IF receiver.conn_closed THEN "exited" ELSE "poll"]
    /\ UNCHANGED <<reg, endpoints, sf_pipe, sf_sent, svc_alive, reg_last, receiver,
                   proxy_attrs, attach_count>>
    /\ UNCHANGED notSF

\* if self._sfunc_reg_conn.poll(): flush, then add what is not yet added; return True
WatcherPoll ==
    /\ watcher.pc = "poll"
    /\ IF receiver.conn_closed
       THEN \* poll() on a closed handle raises OSError, which safe_transmit lets through
            /\ watcher' = [watcher EXCEPT !.pc = "crashed", !.exc = "OSError"]
            /\ UNCHANGED <<sf_pipe, receiver, proxy_attrs, attach_count>>
       ELSE IF ~poll(sf_pipe, svc_alive)
       THEN /\ watcher' = [watcher EXCEPT !.pc = "check"]
            /\ UNCHANGED <<sf_pipe, receiver, proxy_attrs, attach_count>>
       ELSE LET table == flush_connection(receiver.sfuncs, sf_pipe, receiver.service_name)
                new == toAdd(table, watcher.added_functions)
            IN  /\ sf_pipe' = <<>>
                /\ receiver' = [receiver EXCEPT !.sfuncs = table]
                /\ IF ~svc_alive
                   THEN \* recv() raised EOFError inside the flush: safe_transmit returns None
                        /\ watcher' = [watcher EXCEPT !.pc = "exited"]
                        /\ UNCHANGED <<proxy_attrs, attach_count>>
                   ELSE /\ watcher' = [watcher EXCEPT
                                           !.pc = "check",
                                           !.added_functions = @ \cup new]
                        /\ proxy_attrs' = [f \in DOMAIN proxy_attrs \cup new |->
                                              IF f \in new THEN table[f] ELSE proxy_attrs[f]]
                        /\ attach_count' = [f \in FunctionNames |->
                                               IF f \in new THEN attach_count[f] + 1
                                               ELSE attach_count[f]]
    /\ UNCHANGED <<reg, endpoints, sf_sent, svc_alive, reg_last>>
    /\ UNCHANGED notSF

Watcher == WatcherCheckClosed \/ WatcherPoll

\* process_name is what the parent set in the registry of the hosted process
InitSFVarsWith(r) ==
    /\ reg = r
    /\ endpoints = {}
    /\ sf_pipe = <<>>
    /\ sf_sent = <<>>
    /\ svc_alive = TRUE
    /\ reg_last = [n |-> 0, op |-> None, func |-> None, name |-> None,
                   raised |-> None, warned |-> FALSE]
    /\ receiver = ReceiverRecord("0x1")
    /\ watcher = ConnectionWorker
    /\ proxy_attrs = Empty
    /\ attach_count = [f \in FunctionNames |-> 0]

InitSFVars(process_name) == InitSFVarsWith(ServiceFunctionRegistry(process_name))

(***************************************************************************)
(* SpecLife: one caller drives service 1 with any sequence of lifecycle    *)
(* calls; log records each call and the attributes observed after it.      *)
(***************************************************************************)
Entry(op, arg, s) == [op |-> op, arg |-> arg, status |-> s.status,
                      current_step |-> s.current_step,
                      beginning_step |-> s.beginning_step]

Logged(op, arg) ==
    /\ Len(log) < MaxCalls
    /\ log' = Append(log, Entry(op, arg, sims'[1]))
    /\ UNCHANGED <<caller, ksteps>>
    /\ UNCHANGED notLife

LifeRun ==
    /\ sims' = run(sims, 1)
    /\ Logged("run", TRUE)

LifeInit ==
    \E init_status \in BOOLEAN :
        /\ sims' = init(sims, 1, init_status)
        /\ Logged("init", init_status)

LifeStart ==
    \E start_status \in BOOLEAN, b \in BeginSteps \cup {-1} :
        /\ sims' = start(sims, 1, start_status, b)
        /\ Logged("start", start_status)

LifeStep ==
    \E step_status \in BOOLEAN :
        /\ sims' = step(sims, 1, step_status)
        /\ Logged("step", step_status)

LifeFinish ==
    /\ sims' = finish(sims, 1)
    /\ Logged("finish", TRUE)

LifeStop ==
    \E terminate_sim \in BOOLEAN :
        /\ sims' = stop(sims, 1, terminate_sim)
        /\ Logged("stop", terminate_sim)

(***************************************************************************)
(* SpecFan: NumSims services, each driven by its own caller, the calls     *)
(* interleaved in any order (RandomWalkerUser.multi_run).                  *)
(***************************************************************************)
Called(i, k) ==
    /\ caller' = i
    /\ ksteps' = [ksteps EXCEPT ![i] = k]
    /\ UNCHANGED log
    /\ UNCHANGED notLife

FanRun(i) ==
    /\ sims' = run(sims, i)
    /\ Called(i, ksteps[i])

FanInit(i) ==
    \E init_status \in BOOLEAN :
        /\ sims' = init(sims, i, init_status)
        /\ Called(i, ksteps[i])

FanStart(i) ==
    \E start_status \in BOOLEAN, b \in BeginSteps \cup {-1} :
        /\ sims' = start(sims, i, start_status, b)
        /\ Called(i, IF start_status THEN 0 ELSE ksteps[i])

FanStep(i) ==
    \E step_status \in BOOLEAN :
        /\ sims[i].current_step < MaxStep
        /\ sims' = step(sims, i, step_status)
        /\ Called(i, IF step_status /\ ksteps[i] >= 0 THEN ksteps[i] + 1 ELSE ksteps[i])

FanFinish(i) ==
    /\ sims' = finish(sims, i)
    /\ Called(i, ksteps[i])

FanStop(i) ==
    \E terminate_sim \in BOOLEAN :
        /\ sims' = stop(sims, i, terminate_sim)
        /\ Called(i, ksteps[i])


(***************************************************************************)
(* messages.py: the dispatcher/worker protocol on one pipe.                *)
(*                                                                         *)
(* A message carries a command (None: call the functor itself) and, as its *)
(* arguments, the number of the call, so that calls can be told apart.     *)
(* The functor returns Val(k) for call k, or raises.                       *)
(***************************************************************************)
TERMINATOR == "ConnectionMessageTerminator"

Commands == {None, "step"}

Callers == 1..NumCallers

ConnectionMessage(command, args) == [command |-> command, args |-> args]

connection_terminator == ConnectionMessage(TERMINATOR, None)

neverTerminator(msg) == FALSE

\* ConnectionMessage.is_terminator
is_terminator(msg) == msg.command = TERMINATOR

\* ConnectionMessage.__call__: the value the functor returns for the message
Val(msg) == <<"val", msg.command, msg.args>>

Pipe == [d_closed |-> FALSE, w_closed |-> FALSE]

\* call: the message of the caller's last call; exc: the exception that came
\* out of that call, if one did
Caller == [pc |-> "idle", returned |-> <<>>, call |-> None, exc |-> None]

\* RemoteFunctionEvaluator.__call__ goes through safe_transmit (its command is
\* None); the proxy's methods (proxy_function_factory) and dispatch_terminate in
\* close() call the dispatcher directly.
through_safe_transmit(msg) == msg.command = None

\* safe_transmit(conn)(func, ...) when func raises exc: what the caller is
\* handed (None) or the exception that reaches it.
safe_transmit(c, exc) ==
    IF exc \in {"BrokenPipeError", "EOFError"}
    THEN [c EXCEPT !.pc = "idle", !.returned = Append(@, None)]
    ELSE [c EXCEPT !.pc = "idle", !.exc = exc]

\* The caller's call ends in exception exc inside the dispatcher.
raise(c, exc) ==
    IF through_safe_transmit(c.call)
    THEN safe_transmit(c, exc)
    ELSE [c EXCEPT !.pc = "idle", !.exc = exc]

RemoteFunctionWorker == [pc |-> "recv", exc |-> None]

\* Connection.send(frame) by the worker: the frames that reach the pipe.  With
\* the dispatcher end gone the send raises BrokenPipeError and nothing is written.
sent_frames(c, frame) == IF c.d_closed THEN <<>> ELSE <<frame>>

\* worker_transmit, one iteration of its loop under safe_transmit
\* (RemoteFunctionWorker.run), after recv() returned msg: whether the functor
\* was called, the frames written, and where the thread is afterwards.
\* raises: the functor raises for this message.
worker_transmit(c, msg, raises) ==
    IF is_terminator(msg)
    THEN \* conn.send(None); return [a BrokenPipeError ends in safe_transmit]
         [invoked |-> FALSE, wrote |-> sent_frames(c, None),
          pc |-> "exited", exc |-> None]
    ELSE IF raises
    THEN \* msg(func) raises: neither worker_transmit nor safe_transmit catches it
         [invoked |-> TRUE, wrote |-> <<>>, pc |-> "crashed", exc |-> "Exception"]
    ELSE \* val = msg(func); conn.send(val) [a BrokenPipeError ends the loop]
         [invoked |-> TRUE, wrote |-> sent_frames(c, Val(msg)),
          pc |-> IF c.d_closed THEN "exited" ELSE "recv", exc |-> None]

anyTime == TRUE

AllIdle == \A d \in Callers : callers[d].pc = "idle"

\* dispatch_transmit / dispatch_terminate: conn.send(msg), then wait in conn.recv().
\* The dispatcher takes no lock: free is what the callers of the pipe arrange
\* among themselves before a call.
SendWhen(free, c, msg, max) ==
    /\ free
    /\ ~conn.d_closed
    /\ issued < max
    /\ issued' = issued + 1
    /\ IF conn.w_closed
       THEN \* conn.send(msg) raises BrokenPipeError
            /\ callers' = [callers EXCEPT
                   ![c] = raise([@ EXCEPT !.call = msg, !.exc = None],
                                "BrokenPipeError")]
            /\ UNCHANGED req
       ELSE /\ req' = Append(req, msg)
            /\ callers' = [callers EXCEPT ![c].pc = "wait", ![c].call = msg,
                                          ![c].exc = None]
    /\ UNCHANGED <<conn, rep, worker, w_log>>
    /\ UNCHANGED notWire

\* One caller uses the pipe at a time.
Send(c, msg, max) == SendWhen(AllIdle, c, msg, max)

\* dispatch_transmit(conn, _cmd, *args): the request
DispatchTransmit(c, max) ==
    \E command \in Commands : Send(c, ConnectionMessage(command, issued + 1), max)

\* dispatch_terminate(conn): the terminator
DispatchTerminate(c, max) == Send(c, connection_terminator, max)

\* val = conn.recv() in dispatch_transmit / dispatch_terminate
DispatchRecv(c) ==
    /\ callers[c].pc = "wait"
    /\ ~conn.d_closed
    /\ \/ /\ rep # <<>>
          /\ callers' = [callers EXCEPT ![c].pc = "idle",
                                        ![c].returned = Append(@, Head(rep))]
          /\ rep' = Tail(rep)
       \/ /\ rep = <<>>
          /\ conn.w_closed
          /\ req = <<>>
          \* conn.recv() raises EOFError
          /\ callers' = [callers EXCEPT ![c] = raise(@, "EOFError")]
          /\ UNCHANGED rep
       \/ /\ rep = <<>>
          /\ conn.w_closed
          /\ req # <<>>
          \* the worker end was closed with the request unread: conn.recv()
          \* raises ConnectionResetError
          /\ callers' = [callers EXCEPT ![c] = raise(@, "ConnectionResetError")]
          /\ UNCHANGED rep
    /\ UNCHANGED <<conn, req, issued, worker, w_log>>
    /\ UNCHANGED notWire

\* RemoteFunctionEvaluator.__call__ from a thread of its own: the evaluator is
\* called while other threads may be inside it (each thread in one call).
ConcurrentCall(c, max) ==
    SendWhen(callers[c].pc = "idle", c, ConnectionMessage(None, issued + 1), max)

\* val = conn.recv() in a thread while another thread is in recv() on the same
\* Connection: each recv() reads a frame in two reads (length, then body) and
\* the two threads' reads interleave.  The data race consumes the pending frame
\* and hands this thread an unpickling error or an end-of-file.
RacingRecv(c) ==
    /\ callers[c].pc = "wait"
    /\ \E d \in Callers \ {c} : callers[d].pc = "wait"
    /\ ~conn.d_closed
    /\ rep # <<>>
    /\ rep' = Tail(rep)
    /\ \E exc \in {"UnpicklingError", "EOFError"} :
           callers' = [callers EXCEPT ![c] = raise(@, exc)]
    /\ UNCHANGED <<conn, req, issued, worker, w_log>>
    /\ UNCHANGED notWire

\* The worker thread: msg = conn.recv() returns a message, and the iteration runs.
WorkerServe ==
    \E raises \in BOOLEAN :
        LET msg == Head(req)
            it == worker_transmit(conn, msg, raises)
        IN  /\ worker.pc = "recv"
            /\ ~conn.w_closed
            /\ req # <<>>
            /\ req' = Tail(req)
            /\ rep' = rep \o it.wrote
            /\ worker' = [pc |-> it.pc, exc |-> it.exc]
            /\ w_log' = Append(w_log, [recv |-> msg, invoked |-> it.invoked,
                                       wrote |-> it.wrote])
            /\ UNCHANGED <<conn, callers, issued>>
            /\ UNCHANGED notWire

\* conn.recv() with nothing pending and the dispatcher end gone raises EOFError,
\* which safe_transmit turns into None: the thread ends.
WorkerEOF ==
    /\ worker.pc = "recv"
    /\ ~conn.w_closed
    /\ req = <<>>
    /\ conn.d_closed
    /\ rep = <<>>
    /\ worker' = [pc |-> "exited", exc |-> None]
    /\ UNCHANGED <<conn, req, rep, callers, issued, w_log>>
    /\ UNCHANGED notWire

\* conn.recv() with nothing pending and the dispatcher end closed while a reply
\* was still unread raises ConnectionResetError, which safe_transmit lets
\* through: the thread dies of it.
WorkerReset ==
    /\ worker.pc = "recv"
    /\ ~conn.w_closed
    /\ req = <<>>
    /\ conn.d_closed
    /\ rep # <<>>
    /\ worker' = [pc |-> "crashed", exc |-> "ConnectionResetError"]
    /\ UNCHANGED <<conn, req, rep, callers, issued, w_log>>
    /\ UNCHANGED notWire

\* The worker's own end has been closed.  A recv() begun after the close raises
\* OSError("handle is closed"), which safe_transmit lets through; a recv() that
\* was already waiting in the read when the handle was closed may wait forever.
WorkerHandleClosed ==
    /\ worker.pc = "recv"
    /\ conn.w_closed
    /\ \/ worker' = [pc |-> "crashed", exc |-> "OSError"]
       \/ worker' = [pc |-> "hung", exc |-> None]
    /\ UNCHANGED <<conn, req, rep, callers, issued, w_log>>
    /\ UNCHANGED notWire

\* Connection.close() on the dispatcher end (the evaluator's owner goes away).
CloseDispatcherEnd ==
    /\ ~conn.d_closed
    /\ conn' = [conn EXCEPT !.d_closed = TRUE]
    /\ UNCHANGED <<req, rep, callers, issued, worker, w_log>>
    /\ UNCHANGED notWire

\* Connection.close() on the worker end.
CloseWorkerEnd ==
    /\ ~conn.w_closed
    /\ conn' = [conn EXCEPT !.w_closed = TRUE]
    /\ UNCHANGED <<req, rep, callers, issued, worker, w_log>>
    /\ UNCHANGED notWire

\* Connection.close() on the receiver end of the service-function pipe.
CloseReceiverEnd ==
    /\ ~receiver.conn_closed
    /\ receiver' = [receiver EXCEPT !.conn_closed = TRUE]
    /\ UNCHANGED <<reg, endpoints, sf_pipe, sf_sent, svc_alive, reg_last, watcher,
                   proxy_attrs, attach_count>>
    /\ UNCHANGED notSF

WorkerLoop == WorkerServe \/ WorkerEOF \/ WorkerReset \/ WorkerHandleClosed

InitWireVars ==
    /\ conn = Pipe
    /\ req = <<>>
    /\ rep = <<>>
    /\ callers = [c \in Callers |-> Caller]
    /\ issued = 0
    /\ worker = RemoteFunctionWorker
    /\ w_log = <<>>

(***************************************************************************)
(* service_factory.py and TypeProcessWrap: spawning a service proxy,       *)
(* closing it, and close_service.                                          *)
(*                                                                         *)
(* Each wrap owns the manager end of a command pipe; the container at the  *)
(* other end runs the command loop of the hosted process.                  *)
(***************************************************************************)
\* TypeProcessWrap before __init__ (launched: __init__ has run).
\* cmd, ack: frames on the command pipe towards the container and back.
\* loop: where the container's command loop is.  pc: where a close() call on
\* the wrap is.  events: what close() has done so far, in order.
\* hosted: the simulation instance the container hosts; method, calls: the
\* forwarded method a caller of the proxy is in, and the calls made so far.
TypeProcessWrap == [launched |-> FALSE,
                    hosted |-> PySimService,
                    method |-> None,
                    calls |-> 0,
                    conn_closed |-> FALSE,
                    container |-> "none",
                    cmd |-> <<>>,
                    ack |-> <<>>,
                    loop |-> "none",
                    pc |-> "idle",
                    in_close_service |-> FALSE,
                    events |-> <<>>,
                    closes |-> 0]

FacCall(op, name, raised) == [op |-> op, name |-> name, raised |-> raised]

alwaysOpen(w) == FALSE

\* self._conn.closed
closed(w) == w.conn_closed

\* TypeProcessWrap.__init__: the pipe, the container and its start
launch(w) == [w EXCEPT !.launched = TRUE, !.container = "running", !.loop = "recv"]

\* process_factory(_service_name).  An unregistered name fails the assertion
\* at once.  Else the manager is started and the creation method set on
\* ServiceManagerLocal for the name is called: it creates the wrap in the
\* server of the manager it is bound to.  The wrap's record is stored and the
\* service is registered with the receiver, which starts a watcher for it.
ProcessFactory(service_name, p) ==
    LET d == manager_start(mgr) IN
    /\ ~wraps[p].launched
    /\ IF ~is_registered(mgr, service_name)
       THEN /\ fac_last' = FacCall("process_factory", service_name, "AssertionError")
            /\ UNCHANGED <<mgr, wraps, process_registry, service_containers,
                           receiver_workers>>
       ELSE /\ mgr' = d
            /\ IF service_name \notin DOMAIN d.bound \/ d.bound[service_name] # d.manager
               THEN \* the creation method belongs to a manager that was shut
                    \* down: BaseManager._create asserts that its server runs
                    /\ fac_last' = FacCall("process_factory", service_name,
                                           "AssertionError")
                    /\ UNCHANGED <<wraps, process_registry, service_containers,
                                   receiver_workers>>
               ELSE IF service_name \notin d.served
               THEN \* the manager's server was started before the service was
                    \* registered
                    /\ fac_last' = FacCall("process_factory", service_name, "RemoteError")
                    /\ UNCHANGED <<wraps, process_registry, service_containers,
                                   receiver_workers>>
               ELSE /\ wraps' = [wraps EXCEPT ![p] = launch(@)]
                    /\ process_registry' = process_registry \cup {p}
                    /\ service_containers' = service_containers \cup {p}
                    /\ receiver_workers' = receiver_workers \cup {p}
                    /\ fac_last' = FacCall("process_factory", p, None)
    /\ UNCHANGED mgr_last
    /\ UNCHANGED notFac

\* close_service after _s.close() has returned:
\* del process_registry[_s.process_name()], then
\* ServiceFunctionReceiver.disconnect_service(_s).  The receiver class defines
\* no disconnect_service: looking it up raises AttributeError.
close_service_tail(p) ==
    IF p \notin process_registry
    THEN /\ fac_last' = FacCall("close_service", p, "KeyError")
         /\ UNCHANGED <<process_registry, service_containers, receiver_workers>>
    ELSE /\ process_registry' = process_registry \ {p}
         /\ fac_last' = FacCall("close_service", p, "AttributeError")
         /\ UNCHANGED <<service_containers, receiver_workers>>

\* TypeProcessWrap.close() up to its wait for the acknowledgement, called by
\* the client (from_service: as the first statement of close_service).
CloseCall(p, from_service) ==
    /\ wraps[p].launched
    /\ wraps[p].pc = "idle"
    /\ wraps[p].closes < MaxCloseCalls
    /\ IF closed(wraps[p])
       THEN /\ wraps' = [wraps EXCEPT ![p].closes = @ + 1]
            /\ IF from_service
               THEN close_service_tail(p)
               ELSE /\ fac_last' = FacCall("close", p, None)
                    /\ UNCHANGED <<process_registry, service_containers,
                                   receiver_workers>>
       ELSE \* dispatch_terminate: conn.send(connection_terminator); conn.recv()
            /\ wraps' = [wraps EXCEPT
                   ![p].closes = @ + 1,
                   ![p].cmd = Append(@, connection_terminator),
                   ![p].events = Append(@, "send_terminator"),
                   ![p].in_close_service = from_service,
                   ![p].pc = "wait_ack"]
            /\ UNCHANGED <<process_registry, service_containers, receiver_workers,
                           fac_last>>
    /\ UNCHANGED <<mgrVars, notFac>>

WrapClose(p) == CloseCall(p, FALSE)

CloseService(p) == CloseCall(p, TRUE)

\* The hosted simulation runs the method a message names; hook_status is what
\* the subclass hook of the method returns.
invoke(h, method, hook_status) ==
    LET ss == [i \in {1} |-> h] IN
    CASE method = "step" -> step(ss, 1, hook_status)[1]
      [] method = "finish" -> finish(ss, 1)[1]
      [] OTHER -> h

\* The command loop of the hosted process takes a frame from the command pipe:
\* a terminator is acknowledged and ends the loop, any other message is run
\* against the simulation instance and answered.
ContainerServe(p) ==
    \E hook_status \in BOOLEAN :
    LET w == wraps[p]
        it == worker_transmit([d_closed |-> w.conn_closed, w_closed |-> FALSE],
                              Head(w.cmd), FALSE)
    IN  /\ w.loop = "recv"
        /\ w.cmd # <<>>
        /\ wraps' = [wraps EXCEPT
               ![p].cmd = Tail(@),
               ![p].ack = @ \o it.wrote,
               ![p].loop = it.pc,
               ![p].hosted = IF it.invoked
                             THEN invoke(@, Head(w.cmd).command, hook_status)
                             ELSE @]
        /\ UNCHANGED <<process_registry, service_containers, receiver_workers,
                       fac_last>>
        /\ UNCHANGED <<mgrVars, notFac>>

\* conn.recv() in dispatch_terminate returns the acknowledgement
CloseRecvAck(p) ==
    /\ wraps[p].pc = "wait_ack"
    /\ wraps[p].ack # <<>>
    /\ wraps' = [wraps EXCEPT ![p].ack = Tail(@),
                              ![p].events = Append(@, "recv_ack"),
                              ![p].pc = "terminate"]
    /\ UNCHANGED <<process_registry, service_containers, receiver_workers, fac_last>>
    /\ UNCHANGED <<mgrVars, notFac>>

\* self._container.terminate()
CloseTerminate(p) ==
    /\ wraps[p].pc = "terminate"
    /\ wraps' = [wraps EXCEPT ![p].container = "terminated",
                              ![p].loop = "none",
                              ![p].events = Append(@, "terminate"),
                              ![p].pc = "close_conn"]
    /\ UNCHANGED <<process_registry, service_containers, receiver_workers, fac_last>>
    /\ UNCHANGED <<mgrVars, notFac>>

\* self._conn.close(); close() returns, and close_service goes on if it made
\* the call
CloseConn(p) ==
    /\ wraps[p].pc = "close_conn"
    /\ wraps' = [wraps EXCEPT ![p].conn_closed = TRUE,
                              ![p].events = Append(@, "close"),
                              ![p].in_close_service = FALSE,
                              ![p].pc = "idle"]
    /\ IF wraps[p].in_close_service
       THEN close_service_tail(p)
       ELSE /\ fac_last' = FacCall("close", p, None)
            /\ UNCHANGED <<process_registry, service_containers, receiver_workers>>
    /\ UNCHANGED <<mgrVars, notFac>>

ForwardedMethods == {"step", "finish"}

sendNeverRaises(w) == FALSE

\* conn.send(msg) in dispatch_transmit on the wrap's end of the command pipe:
\* on a closed Connection it raises OSError("handle is closed") and writes
\* nothing.
send_raises(w) == w.conn_closed

\* A method set on the wrap by proxy_function_factory(_cmd, self._conn), called
\* through the proxy: dispatch_transmit(conn, _cmd), up to its wait for the
\* reply.  One caller uses the command pipe at a time.
ProxyMethod(p, method) ==
    /\ wraps[p].launched
    /\ wraps[p].pc = "idle"
    /\ wraps[p].calls < MaxProxyCalls
    /\ IF send_raises(wraps[p])
       THEN /\ wraps' = [wraps EXCEPT ![p].calls = @ + 1]
            /\ fac_last' = FacCall(method, p, "OSError")
       ELSE /\ wraps' = [wraps EXCEPT
                   ![p].calls = @ + 1,
                   ![p].cmd = Append(@, ConnectionMessage(method, wraps[p].calls + 1)),
                   ![p].method = method,
                   ![p].pc = "wait_reply"]
            /\ UNCHANGED fac_last
    /\ UNCHANGED <<process_registry, service_containers, receiver_workers>>
    /\ UNCHANGED <<mgrVars, notFac>>

\* val = conn.recv() in dispatch_transmit: the forwarded call returns
ProxyMethodRecv(p) ==
    /\ wraps[p].pc = "wait_reply"
    /\ wraps[p].ack # <<>>
    /\ wraps' = [wraps EXCEPT ![p].ack = Tail(@),
                              ![p].method = None,
                              ![p].pc = "idle"]
    /\ fac_last' = FacCall(wraps[p].method, p, None)
    /\ UNCHANGED <<process_registry, service_containers, receiver_workers>>
    /\ UNCHANGED <<mgrVars, notFac>>

\* running_processes()
running_processes == process_registry

InitFacVars ==
    /\ wraps = [p \in ProcessNames |-> TypeProcessWrap]
    /\ process_registry = {}
    /\ service_containers = {}
    /\ receiver_workers = {}
    /\ fac_last = FacCall(None, None, None)

(***************************************************************************)
(* tests/RandomWalker: the random walker service and its drivers.          *)
(*                                                                         *)
(* RandomWalkerService's _init, _start and _step return True, and its      *)
(* _start assigns nothing.  The driver is _execute: init and start on      *)
(* entering the execution context, NumSteps steps, finish on leaving it.   *)
(* Mode "outside": the client calls run() and then _execute (multi_run).   *)
(* Mode "inside": the client sets _execute as the inside-run hook and      *)
(* calls run() (multi_run_inside), so that _execute runs inside run().     *)
(***************************************************************************)
NumSteps == 100

DriveModes == {"outside", "inside"}

\* hook_calls: calls of the inside-run hook set by the driver; hook_saw: the
\* status when the hook was called; run_returned: the status when run() returned.
Driver(mode) == [mode |-> mode, pc |-> "run", i |-> 0, hook_calls |-> 0,
                 hook_saw |-> None, run_returned |-> None]

runTailSetsLoaded(ss, i) == SetAttr(ss, i, "status", SIM_LOADED)

\* PySimService.run after self._inside_run(self) has returned:
\* return {'name': self._sim_name, 'sim': self}
run_tail(ss, i) == ss

\* run(): self._run(); self.status = SIM_LOADED; self._inside_run(self).
\* With the default hook run() returns at once; with _execute as the hook the
\* driver's calls follow, inside run().
WalkerRun ==
    /\ drive.pc = "run"
    /\ sims' = run(sims, 1)
    /\ IF drive.mode = "inside"
       THEN drive' = [drive EXCEPT !.pc = "init",
                                   !.hook_calls = @ + 1,
                                   !.hook_saw = sims'[1].status]
       ELSE drive' = [drive EXCEPT !.pc = "init",
                                   !.run_returned = run_tail(sims', 1)[1].status]
    /\ UNCHANGED notWalk

\* ExecutionContext.__enter__: self._proxy.init()
WalkerInit ==
    /\ drive.pc = "init"
    /\ sims' = init(sims, 1, TRUE)
    /\ drive' = [drive EXCEPT !.pc = "start"]
    /\ UNCHANGED notWalk

\* ExecutionContext.__enter__: self._proxy.start()
WalkerStart ==
    /\ drive.pc = "start"
    /\ sims' = start(sims, 1, TRUE, PySimService.beginning_step)
    /\ drive' = [drive EXCEPT !.pc = "step"]
    /\ UNCHANGED notWalk

\* for i in range(100): random_walker_proxy.step()
WalkerStep ==
    /\ drive.pc = "step"
    /\ drive.i < NumSteps
    /\ sims' = step(sims, 1, TRUE)
    /\ drive' = [drive EXCEPT !.i = @ + 1]
    /\ UNCHANGED notWalk

\* ExecutionContext.__exit__: self._proxy.finish()
WalkerFinish ==
    /\ drive.pc = "step"
    /\ drive.i = NumSteps
    /\ sims' = finish(sims, 1)
    /\ drive' = [drive EXCEPT !.pc = IF drive.mode = "inside" THEN "return" ELSE "done"]
    /\ UNCHANGED notWalk

\* The hook returns and run() returns to the client.
WalkerRunReturn ==
    /\ drive.pc = "return"
    /\ sims' = run_tail(sims, 1)
    /\ drive' = [drive EXCEPT !.pc = "done", !.run_returned = sims'[1].status]
    /\ UNCHANGED notWalk

InitWalkVars == drive = Driver("outside")

(***************************************************************************)
(* service_wraps.py: TypeProcessWrap.__init__ builds the instance the      *)
(* client's proxy stands for.  It sets, as instance attributes, a          *)
(* forwarder for the functions of the simulation class and a getter and a  *)
(* setter for its properties.                                              *)
(*                                                                         *)
(* A Python value is a record of its type and its content, so that values  *)
(* of different types can be compared as Python compares them.             *)
(***************************************************************************)
\* Names dir(cls) lists on a wrap class (among them its functions).
NativeNames == {"close", "process_name", "__init__"}

\* Names of functions and of properties a simulation class may define.
SimFunctionNames == {"step", "close", "process_name"}

SimPropertyNames == {"current_step", "close"}

Str(n) == [type |-> "str", val |-> <<n>>]

Pair(n, f) == [type |-> "tuple", val |-> <<n, f>>]

\* x == y in Python, and x in S
py_eq(x, y) == x.type = y.type /\ x.val = y.val

py_in(x, S) == \E y \in S : py_eq(x, y)

\* inspect.getmembers(cls, predicate=isfunction): pairs (name, function)
getmembers(process_cls) == {Pair(n, "function") : n \in process_cls.functions}

\* TypeProcessWrap._native_names: dir(cls) + sf + sp, a list of str
native_names == {Str(n) : n \in NativeNames}

\* [f[0] for f in getmembers(cls._process_cls, predicate=isfunction)
\*  if f not in cls._native_names()]
function_names(process_cls) ==
    {f.val[1] : f \in {m \in getmembers(process_cls) : ~py_in(m, native_names)}}

\* [p for p in dir(cls._process_cls) if isinstance(getattr(cls._process_cls, p), property)
\*  if p not in cls._native_names()]
property_names(process_cls) ==
    {p \in process_cls.properties : ~py_in(Str(p), native_names)}

\* proxy_function_factory(_cmd, _conn): dispatch_transmit(_conn, _cmd, ...)
proxy_function_factory(cmd_name) == [kind |-> "forward", name |-> cmd_name]

\* attrs: the forwarders set on the instance by name; accessors: the properties
\* p for which get_p and set_p were set; last: the last attribute looked up.
WrapObject(process_cls) ==
    [process_cls |-> process_cls, built |-> FALSE, attrs |-> Empty,
     accessors |-> {}, last |-> [kind |-> None, name |-> None]]

\* getattr(self, name): the instance's own attributes come first, then the
\* functions of the class
getattr(w, name) ==
    IF name \in DOMAIN w.attrs THEN w.attrs[name]
    ELSE IF name \in NativeNames THEN [kind |-> "native", name |-> name]
    ELSE [kind |-> "AttributeError", name |-> name]

\* TypeProcessWrap.__init__
WrapInit ==
    /\ ~wrap_obj.built
    /\ wrap_obj' = [wrap_obj EXCEPT
           !.built = TRUE,
           !.attrs = [f \in function_names(wrap_obj.process_cls) |->
                         proxy_function_factory(f)],
           !.accessors = property_names(wrap_obj.process_cls)]
    /\ UNCHANGED notBuild

\* A call of proxy.<name>(...): the manager's server looks the name up on the
\* wrap instance.
ProxyGetattr ==
    \E name \in NativeNames \cup SimFunctionNames :
        /\ wrap_obj.built
        /\ wrap_obj' = [wrap_obj EXCEPT !.last = getattr(wrap_obj, name)]
        /\ UNCHANGED notBuild

InitBuildVars == wrap_obj = WrapObject([functions |-> {}, properties |-> {}])

(***************************************************************************)
(* A lifecycle call on the proxy, next to the service-function channel.    *)
(* The client sends the request on the command pipe and waits for the      *)
(* reply; the hosted process takes the request, runs the method, which may *)
(* call service_function, and writes the reply.  The receiver's watcher    *)
(* runs in its own thread of the client process all the while.             *)
(***************************************************************************)
MaxCmdCalls == 2    \* lifecycle calls made on the proxy (SpecOrder)

\* pc: where the call is ("idle": none in progress).  from: the number of
\* announcements sent when the method began.  announced: the names the method
\* announced.  returned: for every call that has returned, the names it
\* announced and the names the client found attached to the proxy on its return.
CommandCall == [pc |-> "idle", from |-> 0, announced |-> {}, returned |-> <<>>]

allAttached(attrs) == FunctionNames

\* The names the attribute adder has set on the proxy (_attr_adder:
\* service_proxy.__setattr__(name, val)): what hasattr(proxy, name) finds.
attached(attrs) == DOMAIN attrs

\* proxy.run(): dispatch_transmit sends the request on the command pipe
CmdCall ==
    /\ cmd.pc = "idle"
    /\ Len(cmd.returned) < MaxCmdCalls
    /\ cmd' = [cmd EXCEPT !.pc = "sent"]
    /\ UNCHANGED notCmd

\* The command loop of the hosted process takes the request and calls the method.
CmdTake ==
    /\ cmd.pc = "sent"
    /\ svc_alive
    /\ cmd' = [cmd EXCEPT !.pc = "running", !.from = Len(sf_sent)]
    /\ UNCHANGED notCmd

\* The method (RandomWalkerService._run) calls service_function.
HostedServiceFunction ==
    /\ cmd.pc = "running"
    /\ SvcServiceFunction(MaxRegCalls)

\* The method returns and the command loop writes the reply.
CmdReply ==
    /\ cmd.pc = "running"
    /\ cmd' = [cmd EXCEPT
           !.pc = "replied",
           !.announced = {sf_sent[k].function_name : k \in (cmd.from + 1)..Len(sf_sent)}]
    /\ UNCHANGED notCmd

\* conn.recv() in dispatch_transmit returns: the call returns to the client
CmdReturn ==
    /\ cmd.pc = "replied"
    /\ cmd' = [cmd EXCEPT
           !.pc = "idle",
           !.announced = {},
           !.returned = Append(@, [announced |-> cmd.announced,
                                   attached |-> attached(proxy_attrs)])]
    /\ UNCHANGED notCmd

InitCmdVars == cmd = CommandCall

(***************************************************************************)
(* messages.py: the evaluators attached to the proxy, each on the pipe     *)
(* remote_function_factory made for it.                                    *)
(*                                                                         *)
(* An evaluator is known by the pipe whose end it holds; the worker at the *)
(* other end runs in the hosted process.                                   *)
(***************************************************************************)
MaxEvalCalls == 2       \* calls made on the attached evaluators (SpecEndpoint)

\* pipes: per endpoint pipe, the frames written towards the worker and back (a
\* pipe nothing was written to has no entry).  call: the evaluator call the
\* client is in.  ran: the functions the workers have called, in order.
EndpointTraffic ==
    [pipes |-> Empty, call |-> [pc |-> "idle", name |-> None, conn |-> 0],
     calls |-> 0, returned |-> <<>>, ran |-> <<>>]

Frames(e) ==
    IF e \in DOMAIN ep.pipes THEN ep.pipes[e] ELSE [req |-> <<>>, rep |-> <<>>]

\* RemoteFunctionEvaluator.__call__: dispatch_transmit(self.__conn, None, *args)
\* under safe_transmit, up to its wait for the reply.  name is the attribute of
\* the proxy the evaluator was set as.
EvaluatorCall(name) ==
    LET e == proxy_attrs[name]
        msg == ConnectionMessage(None, ep.calls + 1)
    IN  /\ ep.call.pc = "idle"
        /\ ep.calls < MaxEvalCalls
        /\ ep' = [ep EXCEPT
               !.pipes = Put(@, e, [Frames(e) EXCEPT !.req = Append(@, msg)]),
               !.call = [pc |-> "wait", name |-> name, conn |-> e],
               !.calls = @ + 1]
        /\ UNCHANGED notEp

\* RemoteFunctionWorker.run of the endpoint on pipe e: worker_transmit takes a
\* message from its own connection, calls its own function and answers on the
\* same connection.
EndpointServe(e) ==
    LET msg == Head(Frames(e).req)
        it == worker_transmit(Pipe, msg, FALSE)
        func == CHOOSE f \in FunctionObjects :
                    \E n \in DOMAIN reg.workers :
                        reg.workers[n] = [func |-> f, worker |-> e]
    IN  /\ svc_alive
        /\ \E n \in DOMAIN reg.workers : reg.workers[n].worker = e
        /\ Frames(e).req # <<>>
        /\ ep' = [ep EXCEPT
               !.pipes = Put(@, e, [req |-> Tail(Frames(e).req),
                                    rep |-> Frames(e).rep \o it.wrote]),
               !.ran = Append(@, func)]
        /\ UNCHANGED notEp

\* val = conn.recv() in dispatch_transmit, on the evaluator's connection
EvaluatorRecv ==
    LET e == ep.call.conn IN
    /\ ep.call.pc = "wait"
    /\ Frames(e).rep # <<>>
    /\ ep' = [ep EXCEPT
           !.pipes = Put(@, e, [Frames(e) EXCEPT !.rep = Tail(@)]),
           !.call = [@ EXCEPT !.pc = "idle"],
           !.returned = Append(@, Head(Frames(e).rep))]
    /\ UNCHANGED notEp

InitEpVars == ep = EndpointTraffic

(***************************************************************************)
(* utils.py: ExecutionContext, a context manager around a service proxy.   *)
(***************************************************************************)
Flags == [run : BOOLEAN, init : BOOLEAN, start : BOOLEAN, finish : BOOLEAN,
          close : BOOLEAN]

\* ExecutionContext.__init__: every flag is True unless the caller says otherwise.
\* issued: the calls made on the proxy and the body, in order.  body_exc: the
\* exception the body raised; raised: the exception the with statement ended in.
ExecutionContext(flags) ==
    [flags |-> flags, pc |-> "new", issued |-> <<>>, body_exc |-> None,
     raised |-> None]

CtxProxy == "0x1"

\* if flag: call
When(flag, call) == IF flag THEN <<call>> ELSE <<>>

\* ExecutionContext.__enter__: run, init and start on the proxy, each under its
\* flag.  The hosted simulation runs each call before the next is made.
CtxEnter ==
    \E init_status \in BOOLEAN, start_status \in BOOLEAN, b \in BeginSteps :
        LET f == ctx.flags
            h0 == [i \in {1} |-> wraps[CtxProxy].hosted]
            h1 == IF f.run THEN run(h0, 1) ELSE h0
            h2 == IF f.init THEN init(h1, 1, init_status) ELSE h1
            h3 == IF f.start THEN start(h2, 1, start_status, b) ELSE h2
        IN  /\ ctx.pc = "new"
            /\ wraps[CtxProxy].launched
            /\ wraps' = [wraps EXCEPT ![CtxProxy].hosted = h3[1]]
            /\ ctx' = [ctx EXCEPT
                   !.pc = "body",
                   !.issued = When(f.run, "run") \o When(f.init, "init")
                                  \o When(f.start, "start")]
            /\ UNCHANGED <<process_registry, service_containers, receiver_workers,
                           fac_last>>
            /\ UNCHANGED <<lifeVars, mgrVars, sfVars, wireVars, walkVars, buildVars,
                           cmdVars, epVars>>

\* The body of the with statement: it steps the proxy, and ends normally or in
\* an exception.
CtxBody ==
    \E step_status \in BOOLEAN, raises \in BOOLEAN :
        /\ ctx.pc = "body"
        /\ wraps' = [wraps EXCEPT
               ![CtxProxy].hosted = step([i \in {1} |-> @], 1, step_status)[1]]
        /\ ctx' = [ctx EXCEPT
               !.pc = "exit",
               !.issued = Append(@, "body"),
               !.body_exc = IF raises THEN "ValueError" ELSE None]
        /\ UNCHANGED <<process_registry, service_containers, receiver_workers,
                       fac_last>>
        /\ UNCHANGED <<lifeVars, mgrVars, sfVars, wireVars, walkVars, buildVars,
                       cmdVars, epVars>>

\* ExecutionContext.__exit__: finish under its flag, then close_service under
\* its flag (the call is begun here and goes on in the proxy's close()).
\* Without it, super().__exit__ returns None and the body's exception goes on.
CtxExit ==
    LET f == ctx.flags IN
    /\ ctx.pc = "exit"
    /\ wraps' = [wraps EXCEPT
           ![CtxProxy].hosted = IF f.finish THEN finish([i \in {1} |-> @], 1)[1]
                                ELSE @]
    /\ ctx' = [ctx EXCEPT
           !.pc = IF f.close THEN "close_service" ELSE "left",
           !.issued = @ \o When(f.finish, "finish") \o When(f.close, "close_service"),
           !.raised = IF f.close THEN None ELSE ctx.body_exc]
    /\ UNCHANGED <<process_registry, service_containers, receiver_workers, fac_last>>
    /\ UNCHANGED <<lifeVars, mgrVars, sfVars, wireVars, walkVars, buildVars,
                   cmdVars, epVars>>

\* close_service(self._proxy) in __exit__
CtxCloseService ==
    /\ ctx.pc = "close_service"
    /\ fac_last.op # "close_service"
    /\ CloseService(CtxProxy)

\* close_service has ended.  An exception it raised leaves __exit__ in place of
\* the body's; had it returned, super().__exit__ would return None and the
\* body's exception would go on.
CtxLeave ==
    /\ ctx.pc = "close_service"
    /\ fac_last.op = "close_service"
    /\ ctx' = [ctx EXCEPT
           !.pc = "left",
           !.raised = IF fac_last.raised # None THEN fac_last.raised
                      ELSE ctx.body_exc]
    /\ UNCHANGED <<lifeVars, mgrVars, sfVars, wireVars, facVars, walkVars, buildVars,
                   cmdVars, epVars>>

InitCtxVars == ctx = ExecutionContext([run |-> TRUE, init |-> TRUE, start |-> TRUE,
                                       finish |-> TRUE, close |-> TRUE])

(***************************************************************************)
(* The specifications.                                                     *)
(***************************************************************************)
InitLife ==
    /\ InitBuildVars
    /\ InitCmdVars
    /\ InitEpVars
    /\ InitCtxVars
    /\ InitWalkVars
    /\ InitFacVars
    /\ InitLifeVars
    /\ InitMgrVars
    /\ InitSFVars("0x1")
    /\ InitWireVars

NextLife ==
    \/ LifeRun
    \/ LifeInit
    \/ LifeStart
    \/ LifeStep
    \/ LifeFinish
    \/ LifeStop

SpecLife == InitLife /\ [][NextLife]_vars

InitFan ==
    /\ InitBuildVars
    /\ InitCmdVars
    /\ InitEpVars
    /\ InitCtxVars
    /\ InitWalkVars
    /\ InitFacVars
    /\ sims = [i \in Sims |-> PySimService]
    /\ log = <<>>
    /\ caller = 0
    /\ ksteps = [i \in Sims |-> -1]
    /\ InitMgrVars
    /\ InitSFVars("0x1")
    /\ InitWireVars

NextFan ==
    \/ \E i \in Sims : FanRun(i)
    \/ \E i \in Sims : FanInit(i)
    \/ \E i \in Sims : FanStart(i)
    \/ \E i \in Sims : FanStep(i)
    \/ \E i \in Sims : FanFinish(i)
    \/ \E i \in Sims : FanStop(i)

SpecFan == InitFan /\ [][NextFan]_vars

InitMgr ==
    /\ InitBuildVars
    /\ InitCmdVars
    /\ InitEpVars
    /\ InitCtxVars
    /\ InitWalkVars
    /\ InitFacVars
    /\ InitMgrVars
    /\ InitLifeVars
    /\ InitSFVars("0x1")
    /\ InitWireVars

NextMgr ==
    \/ MgrRegisterService
    \/ MgrRegisterFunction
    \/ MgrStart
    \/ MgrShutdown

SpecMgr == InitMgr /\ [][NextMgr]_vars

InitSF ==
    /\ InitBuildVars
    /\ InitCmdVars
    /\ InitEpVars
    /\ InitCtxVars
    /\ InitWalkVars
    /\ InitFacVars
    /\ \E process_name \in ProcessNames : InitSFVars(process_name)
    /\ InitLifeVars
    /\ InitMgrVars
    /\ InitWireVars

NextSF ==
    \/ SvcServiceFunction(MaxRegCalls)
    \/ SvcTerminate
    \/ WatcherCheckClosed
    \/ WatcherPoll

SpecSF == InitSF /\ [][NextSF]_vars

\* The watcher is a started thread: the scheduler runs it again and again.
FairSpecSF == SpecSF /\ WF_vars(Watcher)

InitWire ==
    /\ InitBuildVars
    /\ InitCmdVars
    /\ InitEpVars
    /\ InitCtxVars
    /\ InitWalkVars
    /\ InitFacVars
    /\ InitWireVars
    /\ InitLifeVars
    /\ InitMgrVars
    /\ InitSFVars("0x1")

NextWire ==
    \/ \E c \in Callers : DispatchTransmit(c, MaxRequests)
    \/ \E c \in Callers : DispatchTerminate(c, MaxRequests)
    \/ \E c \in Callers : DispatchRecv(c)
    \/ WorkerServe

SpecWire == InitWire /\ [][NextWire]_vars

\* The endpoint's worker is a started thread and a caller inside recv() is a
\* running thread: the scheduler runs them again and again.
FairSpecWire ==
    /\ SpecWire
    /\ WF_vars(WorkerServe)
    /\ \A c \in Callers : WF_vars(DispatchRecv(c))

\* SpecRace: one endpoint whose evaluator is called from several threads with
\* nothing arranged between them.
NextRace ==
    \/ \E c \in Callers : ConcurrentCall(c, MaxRequests)
    \/ \E c \in Callers : DispatchRecv(c)
    \/ \E c \in Callers : RacingRecv(c)
    \/ WorkerServe

SpecRace == InitWire /\ [][NextRace]_vars

\* SpecDead: the pipes with their watching loops (the endpoint worker, the
\* receiver's watcher), where either end of a pipe may be closed at any time.
NextDead ==
    \/ \E c \in Callers : DispatchTransmit(c, MaxDeadRequests)
    \/ \E c \in Callers : DispatchRecv(c)
    \/ WorkerServe
    \/ WorkerEOF
    \/ WorkerReset
    \/ WorkerHandleClosed
    \/ CloseDispatcherEnd
    \/ CloseWorkerEnd
    \/ SvcServiceFunction(MaxDeadRegCalls)
    \/ SvcTerminate
    \/ WatcherCheckClosed
    \/ WatcherPoll
    \/ CloseReceiverEnd

SpecDead == InitWire /\ [][NextDead]_vars

\* Both loops run in started threads.
FairSpecDead == SpecDead /\ WF_vars(WorkerLoop) /\ WF_vars(Watcher)

\* SpecClose: services are registered and spawned, and their proxies closed,
\* by close() or by close_service, any number of times.
InitClose ==
    /\ InitBuildVars
    /\ InitCmdVars
    /\ InitEpVars
    /\ InitCtxVars
    /\ InitWalkVars
    /\ InitFacVars
    /\ InitLifeVars
    /\ InitMgrVars
    /\ InitSFVars("0x1")
    /\ InitWireVars

NextClose ==
    \/ MgrRegisterService
    \/ \E service_name \in ServiceNames, p \in ProcessNames :
           ProcessFactory(service_name, p)
    \/ \E p \in ProcessNames : WrapClose(p)
    \/ \E p \in ProcessNames : CloseService(p)
    \/ \E p \in ProcessNames : ContainerServe(p)
    \/ \E p \in ProcessNames : CloseRecvAck(p)
    \/ \E p \in ProcessNames : CloseTerminate(p)
    \/ \E p \in ProcessNames : CloseConn(p)

SpecClose == InitClose /\ [][NextClose]_vars

\* SpecForward: a registered service is spawned, and its proxies' forwarded
\* methods and close() are called in any order.
InitForward ==
    /\ InitBuildVars
    /\ InitCmdVars
    /\ InitEpVars
    /\ InitCtxVars
    /\ InitWalkVars
    /\ InitFacVars
    /\ InitLifeVars
    /\ mgr = register_service(ServiceManagerLocal, "X", "W1").state
    /\ mgr_last = [n |-> 1, op |-> "register_service", name |-> "X", arg |-> "W1",
                   raised |-> None]
    /\ InitSFVars("0x1")
    /\ InitWireVars

NextForward ==
    \/ \E p \in ProcessNames : ProcessFactory("X", p)
    \/ \E p \in ProcessNames, method \in ForwardedMethods : ProxyMethod(p, method)
    \/ \E p \in ProcessNames : ProxyMethodRecv(p)
    \/ \E p \in ProcessNames : WrapClose(p)
    \/ \E p \in ProcessNames : ContainerServe(p)
    \/ \E p \in ProcessNames : CloseRecvAck(p)
    \/ \E p \in ProcessNames : CloseTerminate(p)
    \/ \E p \in ProcessNames : CloseConn(p)

SpecForward == InitForward /\ [][NextForward]_vars

\* SpecWalker: the random walker service driven through its lifecycle, from
\* outside run() or from inside it.
InitWalker ==
    /\ InitBuildVars
    /\ InitCmdVars
    /\ InitEpVars
    /\ InitCtxVars
    /\ \E mode \in DriveModes : drive = Driver(mode)
    /\ InitLifeVars
    /\ InitMgrVars
    /\ InitSFVars("0x1")
    /\ InitWireVars
    /\ InitFacVars

NextWalker ==
    \/ WalkerRun
    \/ WalkerInit
    \/ WalkerStart
    \/ WalkerStep
    \/ WalkerFinish
    \/ WalkerRunReturn

SpecWalker == InitWalker /\ [][NextWalker]_vars

\* SpecReg: registration calls, through service_function or on the registry
\* itself, in a hosted process (the parent has installed the pipe and the
\* name) or in a process that is not a service.
InitReg ==
    /\ InitBuildVars
    /\ InitCmdVars
    /\ InitEpVars
    /\ InitCtxVars
    /\ \E r \in {NoService, ServiceFunctionRegistry("0x1")} : InitSFVarsWith(r)
    /\ InitLifeVars
    /\ InitMgrVars
    /\ InitWireVars
    /\ InitFacVars
    /\ InitWalkVars

NextReg ==
    \/ SvcServiceFunction(MaxRegCalls)
    \/ RegRegisterFunction(MaxRegCalls)

SpecReg == InitReg /\ [][NextReg]_vars

\* SpecProxy: a wrap instance is built for a simulation class with any of the
\* function and property names, and attributes are looked up on it.
InitProxy ==
    /\ \E fs \in SUBSET SimFunctionNames, ps \in SUBSET SimPropertyNames :
           wrap_obj = WrapObject([functions |-> fs, properties |-> ps])
    /\ InitCmdVars
    /\ InitEpVars
    /\ InitCtxVars
    /\ InitLifeVars
    /\ InitMgrVars
    /\ InitSFVars("0x1")
    /\ InitWireVars
    /\ InitFacVars
    /\ InitWalkVars

NextProxy ==
    \/ WrapInit
    \/ ProxyGetattr

SpecProxy == InitProxy /\ [][NextProxy]_vars

\* SpecOrder: lifecycle calls on the proxy of a hosted process whose methods
\* register service functions, with the receiver's watcher running.
InitOrder ==
    /\ InitCmdVars
    /\ InitEpVars
    /\ InitCtxVars
    /\ InitBuildVars
    /\ InitLifeVars
    /\ InitMgrVars
    /\ InitSFVars("0x1")
    /\ InitWireVars
    /\ InitFacVars
    /\ InitWalkVars

NextOrder ==
    \/ CmdCall
    \/ CmdTake
    \/ HostedServiceFunction
    \/ CmdReply
    \/ CmdReturn
    \/ WatcherCheckClosed
    \/ WatcherPoll

SpecOrder == InitOrder /\ [][NextOrder]_vars

\* SpecRuntime: the manager is started, directly or by process_factory, and
\* shut down, by shutdown() or by the process-wide close(), in any order.
InitRuntime ==
    /\ InitMgrVars
    /\ InitFacVars
    /\ InitBuildVars
    /\ InitCmdVars
    /\ InitEpVars
    /\ InitCtxVars
    /\ InitLifeVars
    /\ InitSFVars("0x1")
    /\ InitWireVars
    /\ InitWalkVars

NextRuntime ==
    \/ MgrRegisterService
    \/ MgrStart
    \/ MgrShutdown
    \/ MgrClose
    \/ \E service_name \in ServiceNames, p \in ProcessNames :
           ProcessFactory(service_name, p)

SpecRuntime == InitRuntime /\ [][NextRuntime]_vars

\* SpecEndpoint: the hosted process registers service functions, the watcher
\* attaches their evaluators, and the client calls the attached evaluators.
InitEndpoint ==
    /\ InitBuildVars
    /\ InitCmdVars
    /\ InitEpVars
    /\ InitCtxVars
    /\ InitWalkVars
    /\ InitFacVars
    /\ InitSFVars("0x1")
    /\ InitLifeVars
    /\ InitMgrVars
    /\ InitWireVars

NextEndpoint ==
    \/ SvcServiceFunction(MaxRegCalls)
    \/ WatcherCheckClosed
    \/ WatcherPoll
    \/ \E name \in DOMAIN proxy_attrs : EvaluatorCall(name)
    \/ \E e \in endpoints : EndpointServe(e)
    \/ EvaluatorRecv

SpecEndpoint == InitEndpoint /\ [][NextEndpoint]_vars

\* SpecContext: a service is spawned and driven through an ExecutionContext
\* with any flags, around a body that may raise.
InitContext ==
    /\ \E flags \in Flags : ctx = ExecutionContext(flags)
    /\ InitBuildVars
    /\ InitCmdVars
    /\ InitEpVars
    /\ InitWalkVars
    /\ InitFacVars
    /\ InitLifeVars
    /\ mgr = register_service(ServiceManagerLocal, "X", "W1").state
    /\ mgr_last = [n |-> 1, op |-> "register_service", name |-> "X", arg |-> "W1",
                   raised |-> None]
    /\ InitSFVars("0x1")
    /\ InitWireVars

NextContext ==
    \/ ProcessFactory("X", CtxProxy)
    \/ CtxEnter
    \/ CtxBody
    \/ CtxExit
    \/ CtxCloseService
    \/ ContainerServe(CtxProxy)
    \/ CloseRecvAck(CtxProxy)
    \/ CloseTerminate(CtxProxy)
    \/ CloseConn(CtxProxy)
    \/ CtxLeave

SpecContext == InitContext /\ [][NextContext]_vars

(***************************************************************************)
(* Properties of the lifecycle (SpecLife, SpecFan).                        *)
(***************************************************************************)
IsPrefix(a, b) == Len(a) <= Len(b) /\ \A n \in 1..Len(a) : a[n] = b[n]

RECURSIVE Merged(_)
\* A sequence with every run of equal consecutive elements merged into one.
Merged(q) ==
    IF Len(q) <= 1 THEN q
    ELSE IF q[1] = q[2] THEN Merged(Tail(q))
    ELSE <<q[1]>> \o Merged(Tail(q))

Observed(l) == Merged([n \in 1..Len(l) |-> l[n].status])

TruthySteps(l, from) == {m \in from..Len(l) : l[m].op = "step" /\ l[m].arg}

\* l is a prefix of a successful sequence run, init, start, step*, finish.
Successful(l) ==
    /\ \A n \in 1..Len(l) : l[n].arg
    /\ Len(l) >= 1 => l[1].op = "run"
    /\ Len(l) >= 2 => l[2].op = "init"
    /\ Len(l) >= 3 => l[3].op = "start"
    /\ \A n \in 4..Len(l) : l[n].op = "step" \/ (n = Len(l) /\ l[n].op = "finish")

Lifecycle == <<SIM_LOADED, SIM_INITIALIZED, SIM_STARTED, SIM_RUNNING, SIM_FINISHED>>

LifecycleNoStep == <<SIM_LOADED, SIM_INITIALIZED, SIM_STARTED, SIM_FINISHED>>

RunningIffStepped(l) ==
    (\E n \in 1..Len(l) : l[n].status = SIM_RUNNING) <=> TruthySteps(l, 1) # {}

\* C1 as stated: in a successful sequence run, init, start, step*, finish the
\* statuses observed after the calls (repeats merged) are a prefix of LOADED,
\* INITIALIZED, STARTED, RUNNING, FINISHED, with RUNNING iff a step was truthy.
C1_PrefixOfLifecycle ==
    Successful(log) => IsPrefix(Observed(log), Lifecycle) /\ RunningIffStepped(log)

\* C1 (amended): in a successful sequence run, init, start, step*, finish the
\* statuses observed after the calls (repeats merged) are a prefix of LOADED,
\* INITIALIZED, STARTED, RUNNING, FINISHED when a step was made, and of LOADED,
\* INITIALIZED, STARTED, FINISHED when none was; RUNNING is among them iff at
\* least one step returned truthy.
C1_LifecycleOrder ==
    Successful(log) =>
        /\ IF TruthySteps(log, 1) # {}
           THEN IsPrefix(Observed(log), Lifecycle)
           ELSE IsPrefix(Observed(log), LifecycleNoStep)
        /\ RunningIffStepped(log)

C1_Witness ==
    /\ Successful(log)
    /\ Len(log) = 5
    /\ log[4].op = "step"
    /\ log[5].op = "finish"
    /\ Observed(log) = Lifecycle

\* The log ends with a truthy start at n followed by step calls only.
StartThenSteps(l, n) ==
    /\ l[n].op = "start"
    /\ l[n].arg
    /\ \A m \in (n + 1)..Len(l) : l[m].op = "step"

\* C2: after a truthy start, current_step = beginning_step; after k further
\* truthy steps (and any number of falsy ones), current_step = beginning_step + k.
C2_StepCounterLaw ==
    \A n \in 1..Len(log) :
        StartThenSteps(log, n) =>
            sims[1].current_step =
                sims[1].beginning_step + Cardinality(TruthySteps(log, n + 1))

C2_Witness ==
    \E n \in 1..Len(log) :
        /\ StartThenSteps(log, n)
        /\ Cardinality(TruthySteps(log, n + 1)) = 2
        /\ \E m \in (n + 1)..Len(log) : ~log[m].arg
        /\ sims[1].beginning_step = 2
        /\ sims[1].current_step = 4

C9_Independent ==
    /\ [](\A i \in Sims :
            ksteps[i] >= 0 =>
                sims[i].current_step = sims[i].beginning_step + ksteps[i])
    /\ [][\A j \in Sims : j # caller' => sims'[j] = sims[j]]_vars

C9_Witness ==
    /\ ksteps[1] = 2
    /\ ksteps[2] = 0
    /\ sims[1].beginning_step = -1
    /\ sims[1].current_step = 1
    /\ sims[2].beginning_step = 2
    /\ sims[2].current_step = 2
    /\ sims[1].status = SIM_FINISHED
    /\ sims[2].status = SIM_STARTED

(***************************************************************************)
(* Properties of the service manager (SpecMgr).                            *)
(***************************************************************************)
MgrCall(op) == mgr_last' # mgr_last /\ mgr_last'.op = op

Registrations(m) == <<m.service_registry, m.function_registry, m.callables, m.bound>>

\* C7: register_service with a name already in the service registry raises, and
\* so does register_function with a name already in the function registry; the
\* failed call leaves both registries, the callable registered for every name
\* and the creation method bound to it as they were.
C7_DuplicateRejected ==
    [][/\ (MgrCall("register_service") /\ mgr_last'.name \in DOMAIN mgr.service_registry) =>
              /\ mgr_last'.raised = "AttributeError"
              /\ Registrations(mgr') = Registrations(mgr)
       /\ (MgrCall("register_function") /\ mgr_last'.name \in DOMAIN mgr.function_registry) =>
              /\ mgr_last'.raised = "AttributeError"
              /\ Registrations(mgr') = Registrations(mgr)]_vars

C7_Witness ==
    /\ mgr_last.op = "register_service"
    /\ mgr_last.raised = "AttributeError"
    /\ mgr_last.name = "X"
    /\ mgr_last.arg = "W2"
    /\ mgr.service_registry["X"] = "W1"
    /\ mgr.callables["X"] = "W1"
    /\ mgr.started
    /\ "X" \in mgr.served

(***************************************************************************)
(* Properties of the service-function channel (SpecSF, FairSpecSF).        *)
(***************************************************************************)
\* C4: every announcement the receiver has received with the process name of
\* its service (it is in the endpoint table) is eventually an attribute of the
\* proxy, and the attribute adder is never called twice for a function name.
C4_EventuallyAttachedOnce ==
    /\ \A f \in FunctionNames :
           (f \in DOMAIN receiver.sfuncs) ~> (f \in DOMAIN proxy_attrs)
    /\ [](\A f \in FunctionNames : attach_count[f] <= 1)

Range(q) == {q[n] : n \in 1..Len(q)}

Misrouted(msg) == msg.service_name # receiver.service_name

\* C5: an announcement whose process name differs from the name the service is
\* registered under is never in the endpoint table nor an attribute of the proxy.
C5_MisroutedDropped ==
    \A msg \in Range(sf_sent) :
        Misrouted(msg) =>
            /\ ~(/\ msg.function_name \in DOMAIN receiver.sfuncs
                 /\ receiver.sfuncs[msg.function_name] = msg.evaluator)
            /\ ~(/\ msg.function_name \in DOMAIN proxy_attrs
                 /\ proxy_attrs[msg.function_name] = msg.evaluator)

C5_Witness ==
    /\ Len(sf_sent) = 2
    /\ \A msg \in Range(sf_sent) : Misrouted(msg)
    /\ sf_pipe = <<>>
    /\ watcher.pc = "check"
    /\ svc_alive
    /\ receiver.sfuncs = Empty

\* C8: a service_function call with a name the registry already holds raises
\* ValueError; it makes no endpoint, leaves the registry's table as it was and
\* sends nothing on the service-function pipe.
C8_NameCollision ==
    [][(reg_last' # reg_last /\ reg_last'.name \in DOMAIN reg.workers) =>
           /\ reg_last'.raised = "ValueError"
           /\ endpoints' = endpoints
           /\ reg'.workers = reg.workers
           /\ sf_pipe' = sf_pipe
           /\ sf_sent' = sf_sent]_vars

C8_Witness ==
    /\ reg_last.raised = "ValueError"
    /\ reg_last.name = "ping"
    /\ reg_last.func = "set_pos"
    /\ reg.workers["ping"].func = "get_pos"
    /\ Cardinality(endpoints) = 1
    /\ Len(sf_sent) = 1

(***************************************************************************)
(* Properties of the pipes and their loops (SpecWire, FairSpecDead).       *)
(***************************************************************************)
\* C6: once either end of a pipe is closed, the loop watching the pipe ends, and
\* ends with no exception escaping its thread: the endpoint worker of
\* RemoteFunctionWorker on its pipe, the receiver's watcher on the
\* service-function pipe.  (An exception raised by the hosted functor is not
\* counted against the pipe.)
C6_LoopsEndCleanly ==
    /\ (conn.d_closed \/ conn.w_closed) ~>
           (worker.pc = "exited" \/ worker.exc = "Exception")
    /\ (receiver.conn_closed \/ ~svc_alive) ~> (watcher.pc = "exited")

\* C10: a worker loop that receives a TERMINATOR does not call the functor for
\* it, writes one frame, the acknowledgement None, and exits: it is the last
\* message the loop receives and its acknowledgement the last frame it writes.
C10_TerminatorAck ==
    \A n \in 1..Len(w_log) :
        w_log[n].recv.command = TERMINATOR =>
            /\ ~w_log[n].invoked
            /\ w_log[n].wrote = <<None>>
            /\ n = Len(w_log)
            /\ worker.pc = "exited"

C10_Witness ==
    /\ Len(w_log) = 2
    /\ w_log[1].invoked
    /\ w_log[2].recv = connection_terminator
    /\ callers[1].returned = <<Val(w_log[1].recv), None>>
    /\ rep = <<>>
    /\ req # <<>>
    /\ callers[2].pc = "wait"

(***************************************************************************)
(* Properties of the request/reply protocol (SpecWire), continued.         *)
(***************************************************************************)
\* The last value a caller was handed.
LastReturned(c) == callers'[c].returned[Len(callers'[c].returned)]

\* Caller c is handed the reply it was waiting for in this step.
Handed(c) ==
    /\ callers[c].pc = "wait"
    /\ Len(callers'[c].returned) = Len(callers[c].returned) + 1

\* C11: with one caller at a time on the pipe, the n-th message the functor's
\* loop takes is the n-th message issued, and the value handed to the caller of
\* call k is what the functor returned for call k (None for the terminator).
C11_IssueOrder ==
    [][ /\ \A n \in 1..Len(w_log') :
               \/ w_log'[n].recv = connection_terminator
               \/ w_log'[n].recv.args = n
        /\ \A c \in Callers :
               Handed(c) =>
                   /\ Len(w_log) = issued
                   /\ LET msg == w_log[issued].recv
                      IN  LastReturned(c) =
                              IF msg = connection_terminator THEN None
                              ELSE <<"val", msg.command, issued>> ]_vars

C11_Witness ==
    /\ Len(w_log) = 3
    /\ \A n \in 1..3 : w_log[n].invoked /\ w_log[n].recv.args = n
    /\ callers[1].returned = <<Val(w_log[1].recv), Val(w_log[3].recv)>>
    /\ callers[2].returned = <<Val(w_log[2].recv)>>


RECURSIVE HandedBack(_)
\* The number of values handed back to the callers in S.
HandedBack(S) ==
    IF S = {} THEN 0
    ELSE LET c == CHOOSE d \in S : TRUE
         IN  Len(callers[c].returned) + HandedBack(S \ {c})

\* C12: with one caller at a time there is at most one request in flight (calls
\* issued minus values handed back is 0 or 1, and the pipe holds at most one
\* frame), and the worker has written exactly one reply frame for every request
\* frame it has taken.
C12_OneInFlight ==
    /\ issued - HandedBack(Callers) \in {0, 1}
    /\ Len(req) + Len(rep) <= 1
    /\ \A n \in 1..Len(w_log) : Len(w_log[n].wrote) = 1

\* C14: a call whose functor raised has been answered with a reply frame, and
\* the loop has not died (it waits for the next request, or has ended on a
\* terminator).
C14_LoopSurvivesException ==
    /\ worker.pc \in {"recv", "exited"}
    /\ worker.exc = None
    /\ \A n \in 1..Len(w_log) : w_log[n].invoked => w_log[n].wrote # <<>>


(***************************************************************************)
(* Properties of the pipes when the peer goes away (SpecDead), continued.  *)
(***************************************************************************)
\* C13: no exception comes out of a call made through safe_transmit because the
\* other end of the pipe was closed: a call of an attached evaluator hands back
\* a value or None, and neither loop run under the wrapper ends in a
\* pipe-closed or end-of-file exception.
C13_NeverReRaises ==
    /\ \A c \in Callers :
           \/ callers[c].exc = None
           \/ ~through_safe_transmit(callers[c].call)
    /\ worker.exc \notin {"BrokenPipeError", "EOFError", "ConnectionResetError"}
    /\ watcher.exc \notin {"BrokenPipeError", "EOFError", "ConnectionResetError"}


(***************************************************************************)
(* Properties of closing a proxy (SpecClose).                              *)
(***************************************************************************)
CloseOrder == <<"send_terminator", "recv_ack", "terminate", "close">>

\* C15: what close() has done on a proxy is always a beginning of: terminator
\* sent, acknowledgement received, container stopped, pipe closed (so the first
\* close() does these in this order and no later one repeats any of them), and
\* a close() called on a proxy whose pipe is closed changes nothing: no frame is
\* sent, nothing is waited for, and the wrap, the running-process records and
\* the receiver are as before.
C15_CloseIdempotentOrdered ==
    [][\A p \in ProcessNames :
           /\ IsPrefix(wraps'[p].events, CloseOrder)
           /\ wraps'[p].conn_closed => wraps'[p].container = "terminated"
           /\ (wraps[p].conn_closed /\ wraps'[p].closes = wraps[p].closes + 1) =>
                  /\ wraps'[p] = [wraps[p] EXCEPT !.closes = @ + 1]
                  /\ fac_last'.op = "close" =>
                         UNCHANGED <<process_registry, service_containers,
                                     receiver_workers>>]_vars

C15_Witness ==
    \E p \in ProcessNames :
        /\ wraps[p].events = CloseOrder
        /\ wraps[p].closes = 3
        /\ wraps[p].conn_closed
        /\ wraps[p].pc = "idle"
        /\ fac_last = FacCall("close", p, None)

\* C16: when close_service(proxy) is over it has returned normally, the proxy
\* is closed, its process name is not among the running processes, and the
\* receiver holds neither a record nor a watcher for it.
C16_CloseServiceDetaches ==
    fac_last.op = "close_service" =>
        /\ fac_last.raised = None
        /\ wraps[fac_last.name].conn_closed
        /\ fac_last.name \notin running_processes
        /\ fac_last.name \notin service_containers
        /\ fac_last.name \notin receiver_workers


(***************************************************************************)
(* Properties of the random walker scenarios (SpecWalker).                 *)
(***************************************************************************)
\* C17: when run, init, start, 100 steps and finish have been made on the
\* random walker service, current_step is 100 and the status is FINISHED.
C17_HundredSteps ==
    (drive.mode = "outside" /\ drive.pc = "done") =>
        /\ sims[1].current_step = 100
        /\ sims[1].status = SIM_FINISHED

\* C18: run() calls the inside-run hook at most once, and exactly once by the
\* time it returns; the hook is called with the status LOADED; and when the
\* hook has driven init, start, the steps and finish, the status the caller
\* of run() observes on its return is FINISHED (run() writes no status after
\* the hook).
C18_HookAtTailOfRun ==
    drive.mode = "inside" =>
        /\ drive.hook_calls <= 1
        /\ drive.pc # "run" => drive.hook_calls = 1 /\ drive.hook_saw = SIM_LOADED
        /\ drive.pc = "done" =>
               /\ drive.run_returned = SIM_FINISHED
               /\ sims[1].status = SIM_FINISHED

C18_Witness ==
    /\ drive.mode = "inside"
    /\ drive.pc = "done"
    /\ drive.i = NumSteps
    /\ drive.hook_calls = 1
    /\ drive.run_returned = SIM_FINISHED


(***************************************************************************)
(* Properties of registration outside a hosted process (SpecReg).          *)
(***************************************************************************)
\* C19: with no service-function pipe installed, a registration call changes
\* nothing (no endpoint, the table as before, nothing sent); made on the
\* registry it raises NotAServiceError, and made through service_function it
\* logs a warning and returns normally.
C19_NotAService ==
    [][(reg.receiver_conn = None /\ reg_last'.n = reg_last.n + 1) =>
           /\ UNCHANGED <<reg, endpoints, sf_pipe, sf_sent>>
           /\ reg_last'.op = "register_function" =>
                  reg_last'.raised = "NotAServiceError" /\ ~reg_last'.warned
           /\ reg_last'.op = "service_function" =>
                  reg_last'.raised = None /\ reg_last'.warned]_vars

C19_Witness ==
    /\ reg = NoService
    /\ reg_last.n = 3
    /\ reg_last.op = "service_function"
    /\ reg_last.warned
    /\ reg_last.raised = None
    /\ endpoints = {}
    /\ sf_sent = <<>>


(***************************************************************************)
(* Properties of the lifecycle (SpecLife), continued.                      *)
(***************************************************************************)
\* The status a truthy init, start or step leaves.
Advanced(op) ==
    CASE op = "init" -> SIM_INITIALIZED
      [] op = "start" -> SIM_STARTED
      [] op = "step" -> SIM_RUNNING

\* C20: an init, start or step whose hook returned falsy (the value the call
\* returns, logged as its arg) leaves status, current_step and error_message as
\* they were, and one whose hook returned truthy leaves the advanced status,
\* however many falsy calls came before it.
C20_FalsyLeavesUnchanged ==
    [][Len(log') = Len(log) + 1 =>
           LET call == log'[Len(log')] IN
           call.op \in {"init", "start", "step"} =>
               IF call.arg
               THEN sims'[1].status = Advanced(call.op)
               ELSE /\ sims'[1].status = sims[1].status
                    /\ sims'[1].current_step = sims[1].current_step
                    /\ sims'[1].error_message = sims[1].error_message]_vars

C20_Witness ==
    /\ Len(log) = 5
    /\ log[1].op = "run"
    /\ log[2].op = "init" /\ ~log[2].arg /\ log[2].status = SIM_LOADED
    /\ log[3].op = "init" /\ log[3].arg /\ log[3].status = SIM_INITIALIZED
    /\ log[4].op = "start" /\ ~log[4].arg /\ log[4].status = SIM_INITIALIZED
    /\ log[5].op = "start" /\ log[5].arg /\ log[5].status = SIM_STARTED

(***************************************************************************)
(* Properties of the lifecycle (SpecLife): calls made out of order.        *)
(***************************************************************************)
\* The status and the step counter before the n-th logged call.
StatusBefore(l, n) == IF n = 1 THEN PySimService.status ELSE l[n - 1].status

StepBefore(l, n) == IF n = 1 THEN PySimService.current_step ELSE l[n - 1].current_step

\* The statuses the contract names as the precondition of an operation.
Precondition(op) ==
    CASE op = "run" -> {SIM_REGISTERED}
      [] op = "init" -> {SIM_LOADED}
      [] op = "start" -> {SIM_INITIALIZED}
      [] op = "step" -> {SIM_STARTED, SIM_RUNNING}

\* C21: a run, init, start or step called in a status other than the one the
\* contract names as its precondition leaves the status and the step counter
\* as they were.
C21_OnlyFromPrecondition ==
    \A n \in 1..Len(log) :
        (/\ log[n].op \in {"run", "init", "start", "step"}
         /\ StatusBefore(log, n) \notin Precondition(log[n].op)) =>
            /\ log[n].status = StatusBefore(log, n)
            /\ log[n].current_step = StepBefore(log, n)

\* C22: a step called when a stop(terminate_sim=False) has left the status
\* STOPPED leaves the status STOPPED and the step counter as it was.
C22_NoStepAfterStop ==
    \A n \in 2..Len(log) :
        (/\ log[n].op = "step"
         /\ log[n - 1].op = "stop"
         /\ ~log[n - 1].arg
         /\ log[n - 1].status = SIM_STOPPED) =>
            /\ log[n].status = SIM_STOPPED
            /\ log[n].current_step = log[n - 1].current_step

\* C29: as the class docstring reports the statuses, stop() with its default
\* argument (terminate_sim=True) leaves STOPPED and stop(terminate_sim=False)
\* leaves FINISHED.
C29_StopAsDocstring ==
    \A n \in 1..Len(log) :
        log[n].op = "stop" =>
            log[n].status = IF log[n].arg THEN SIM_STOPPED ELSE SIM_FINISHED

(***************************************************************************)
(* Properties of the proxy's attributes (SpecProxy).                       *)
(***************************************************************************)
\* C24: a wrap instance carries no forwarder under a name the wrap class
\* itself defines, whatever functions the simulation class has, so close and
\* process_name looked up on it are the wrap's own.
C24_WrapNamesKept ==
    wrap_obj.built =>
        /\ \A n \in NativeNames : n \notin DOMAIN wrap_obj.attrs
        /\ getattr(wrap_obj, "close") = [kind |-> "native", name |-> "close"]
        /\ getattr(wrap_obj, "process_name") = [kind |-> "native", name |-> "process_name"]

(***************************************************************************)
(* Properties of the two pipes of a proxy (SpecOrder).                     *)
(***************************************************************************)
\* The names announced by the calls that had returned by the n-th return.
AnnouncedBy(n) == UNION {cmd.returned[m].announced : m \in 1..n}

\* C23: the command pipe and the service-function pipe are not ordered.  What
\* a returned lifecycle call finds attached to the proxy is some part of what
\* has been announced by then, and no step of the call on the command pipe
\* attaches anything or moves the watcher: a call may return with none of the
\* functions it announced attached, or with all of them attached before it
\* returned (C23_Witness: the first call, the second call).
C23_NoPipeOrdering ==
    /\ [](\A n \in 1..Len(cmd.returned) : cmd.returned[n].attached \subseteq AnnouncedBy(n))
    /\ [][cmd' # cmd => UNCHANGED <<proxy_attrs, attach_count, receiver, watcher, sf_pipe>>]_vars

C23_Witness ==
    /\ Len(cmd.returned) = 2
    /\ cmd.returned[1].announced # {}
    /\ cmd.returned[1].announced \cap cmd.returned[1].attached = {}
    /\ cmd.returned[2].announced # {}
    /\ cmd.returned[2].announced \subseteq cmd.returned[2].attached

(***************************************************************************)
(* Properties of the service factory (SpecClose), continued.               *)
(***************************************************************************)
\* A process_factory call is over in this step, for the name or with the name given.
FactoryCall == fac_last' # fac_last /\ fac_last'.op = "process_factory"

Unregistered(name) ==
    name \notin DOMAIN mgr.service_registry \cup DOMAIN mgr.function_registry

\* C25: when process_factory returns a proxy, the running-process record of
\* the new process name is stored, the receiver holds the record of the
\* service and a watcher for it, and the wrap has been launched; when it is
\* called with an unregistered name it raises with the manager as it was (not
\* started by the call), no wrap launched, and the running processes and the
\* receiver unchanged.
C25_FactoryOrder ==
    [][FactoryCall =>
           /\ fac_last'.raised = None =>
                  /\ fac_last'.name \in running_processes'
                  /\ fac_last'.name \in service_containers'
                  /\ fac_last'.name \in receiver_workers'
                  /\ wraps'[fac_last'.name].launched
                  /\ mgr'.started
           /\ (fac_last'.name \in ServiceNames /\ Unregistered(fac_last'.name)) =>
                  /\ fac_last'.raised = "AssertionError"
                  /\ mgr' = mgr
                  /\ UNCHANGED <<wraps, process_registry, service_containers,
                                 receiver_workers>>]_vars

C25_Witness ==
    /\ fac_last = FacCall("process_factory", "Y", "AssertionError")
    /\ "Y" \notin DOMAIN mgr.service_registry
    /\ running_processes = {"0x1"}
    /\ service_containers = {"0x1"}
    /\ receiver_workers = {"0x1"}
    /\ wraps["0x1"].launched
    /\ ~wraps["0x2"].launched

(***************************************************************************)
(* Properties of starting and shutting down the manager (SpecRuntime,      *)
(* SpecMgr).                                                               *)
(***************************************************************************)
\* process_factory got as far as manager_local.start() in this step.
FactoryStart ==
    /\ FactoryCall
    /\ ~(fac_last'.name \in ServiceNames /\ Unregistered(fac_last'.name))

\* C26: a start, made directly or by process_factory, on a manager that is
\* started changes nothing of the manager (the underlying manager, what its
\* server serves, the registries), and a start on one that is not started
\* starts it and leaves the registries as they were.
C26_StartIdempotent ==
    [][(MgrCall("start") \/ FactoryStart) =>
           /\ mgr.started => mgr' = mgr
           /\ mgr'.started
           /\ Registrations(mgr') = Registrations(mgr)]_vars

C26_Witness ==
    /\ mgr_last.op = "start"
    /\ mgr_last.n = 4
    /\ mgr.started
    /\ mgr.created = 1
    /\ DOMAIN mgr.service_registry = {"X", "Y"}
    /\ mgr.served = {"X"}
    /\ fac_last = FacCall("process_factory", "Y", "RemoteError")
    /\ running_processes = {"0x1"}

\* C27: the process-wide close() raises nothing; on a started manager it shuts
\* the manager down, and on a manager that is not started (never started, or
\* shut down already) it changes nothing.
C27_CloseRepeatable ==
    [][MgrCall("close") =>
           /\ mgr_last'.raised = None
           /\ IF mgr.started
              THEN ~mgr'.started /\ mgr'.manager = 0
              ELSE mgr' = mgr
           /\ UNCHANGED <<wraps, process_registry, service_containers,
                          receiver_workers>>]_vars

C27_Witness ==
    /\ mgr_last.op = "close"
    /\ mgr_last.n = 4
    /\ mgr.created = 1
    /\ mgr.manager = 0
    /\ ~mgr.started
    /\ mgr.service_registry = Empty

\* C28: a shutdown of a started manager leaves no service name registered: no
\* name that was registered before it is registered after it, nor listed by
\* registered_services().
C28_ShutdownForgets ==
    [][(MgrCall("shutdown") /\ mgr.started) =>
           \A name \in DOMAIN mgr.service_registry :
               /\ ~is_registered(mgr', name)
               /\ name \notin BagToSet(registered_services(mgr'))]_vars

(***************************************************************************)
(* Properties of registration in a hosted process (SpecReg), continued.    *)
(***************************************************************************)
\* The registration call of this step returned normally in a hosted process.
Registered == reg_last'.n = reg_last.n + 1 /\ reg_last'.raised = None /\ ~reg_last'.warned

\* C30: a registration that succeeds stores the function and the worker of a
\* new endpoint under the name and sends one announcement, which carries the
\* process name, the name and the evaluator of that endpoint; so every name
\* announced is a key of the registry's table, and no name is announced twice.
C30_StoredThenAnnounced ==
    /\ [][Registered =>
              LET name == reg_last'.name IN
              /\ name \notin DOMAIN reg.workers
              /\ name \in DOMAIN reg'.workers
              /\ reg'.workers[name].func = reg_last'.func
              /\ reg'.workers[name].worker \in endpoints' \ endpoints
              /\ sf_sent' = Append(sf_sent,
                                   [service_name |-> reg'.process_name,
                                    function_name |-> name,
                                    evaluator |-> reg'.workers[name].worker])]_vars
    /\ [](/\ \A msg \in Range(sf_sent) : msg.function_name \in DOMAIN reg.workers
          /\ \A m, n \in 1..Len(sf_sent) :
                 sf_sent[m].function_name = sf_sent[n].function_name => m = n)

C30_Witness ==
    /\ reg.receiver_conn # None
    /\ reg.process_name = "0x1"
    /\ reg_last.n = 3
    /\ reg_last.raised = "ValueError"
    /\ Len(sf_sent) = 2
    /\ DOMAIN reg.workers = {sf_sent[1].function_name, sf_sent[2].function_name}
    /\ sf_sent[1].function_name = "ping"
    /\ sf_sent[2].function_name = "get_pos"

(***************************************************************************)
(* Properties of the service manager (SpecMgr), continued.                 *)
(***************************************************************************)
\* C37: no name is both a registered service and a registered function, and
\* the callable the manager holds for a service name is the wrap registered as
\* that service.
C37_NamesUniqueAcrossRegistries ==
    /\ DOMAIN mgr.service_registry \cap DOMAIN mgr.function_registry = {}
    /\ \A name \in BagToSet(registered_services(mgr)) :
           CopiesIn(name, registered_services(mgr)) = 1
    /\ \A name \in DOMAIN mgr.service_registry :
           mgr.callables[name] = mgr.service_registry[name]

(***************************************************************************)
(* Properties of the service-function channel (SpecSF), continued.         *)
(***************************************************************************)
\* C33: when the watcher has ended because the service-function pipe was
\* closed, every function name in the endpoint table of the service is an
\* attribute of the proxy.
C33_ExitsAfterAttaching ==
    watcher.pc = "exited" => DOMAIN receiver.sfuncs \subseteq DOMAIN proxy_attrs

(***************************************************************************)
(* Properties of the dispatcher and the worker loop, continued             *)
(* (FairSpecWire, SpecRace).                                               *)
(***************************************************************************)
\* C34: a call of the dispatcher made while the worker loop is serving returns
\* to its caller, whether the hosted function returns a value or raises: the
\* caller does not wait for the reply frame forever.
C34_EveryCallReturns ==
    \A c \in Callers :
        (callers[c].pc = "wait" /\ worker.pc = "recv") ~> (callers[c].pc = "idle")

\* C35: with the same evaluator called from several threads at once, a call
\* that has returned handed its caller the result of that caller's own call.
C35_OwnResult ==
    \A c \in Callers :
        (callers[c].pc = "idle"
            /\ (callers[c].returned # <<>> \/ callers[c].exc # None))
            => /\ callers[c].exc = None
               /\ callers[c].returned # <<>>
               /\ ToString(callers[c].returned[Len(callers[c].returned)])
                      = ToString(Val(callers[c].call))

(***************************************************************************)
(* Properties of forwarded calls and close() (SpecForward).                *)
(***************************************************************************)
\* C36: from the moment close() has received the acknowledgement of its
\* terminator, the hosted simulation's status and current_step do not change;
\* and once close() has returned (the wrap's end of the command pipe is closed)
\* a call of a forwarded method puts no frame on the command pipe and is not
\* taken by the command loop.
C36_NothingRunsAfterClose ==
    [][ \A p \in ProcessNames :
            /\ (\E n \in DOMAIN wraps[p].events : wraps[p].events[n] = "recv_ack")
                   => wraps'[p].hosted = wraps[p].hosted
            /\ wraps[p].conn_closed
                   => /\ wraps'[p].cmd = wraps[p].cmd
                      /\ wraps'[p].loop = wraps[p].loop
                      /\ wraps'[p].pc # "wait_reply" ]_vars

C36_Witness ==
    /\ wraps["0x1"].conn_closed
    /\ wraps["0x1"].pc = "idle"
    /\ wraps["0x1"].hosted.status = SIM_RUNNING
    /\ wraps["0x1"].hosted.current_step = 0
    /\ wraps["0x1"].calls = 2
    /\ fac_last = FacCall("step", "0x1", "OSError")

(***************************************************************************)
(* Properties of the attached evaluators (SpecEndpoint).                   *)
(***************************************************************************)
\* The frames on endpoint pipe e after the step.
FramesNext(e) ==
    IF e \in DOMAIN ep'.pipes THEN ep'.pipes[e] ELSE [req |-> <<>>, rep |-> <<>>]

\* The pipe of the endpoint registered under name in the hosted process.
PipeOf(name) == reg.workers[name].worker

\* C31: no two endpoints of the registry share a pipe, and the evaluator
\* attached to the proxy under a name holds the pipe of that name's worker; a
\* call on an attached evaluator writes one request frame on that pipe, the
\* function called for it is the one registered under the name, and its result
\* comes back on the same pipe, while no other endpoint pipe, the
\* service-function pipe and the command pipes carry nothing of it.
C31_OwnFreshPipe ==
    /\ [](\A n1 \in DOMAIN reg.workers, n2 \in DOMAIN reg.workers :
              n1 # n2 => PipeOf(n1) # PipeOf(n2))
    /\ [](\A name \in DOMAIN proxy_attrs :
              name \in DOMAIN reg.workers /\ proxy_attrs[name] = PipeOf(name))
    /\ [][ ep' # ep =>
             LET name == IF ep.call.pc = "idle" THEN ep'.call.name ELSE ep.call.name
                 e == PipeOf(name)
             IN  /\ \A x \in endpoints \ {e} : FramesNext(x) = Frames(x)
                 /\ UNCHANGED <<sf_pipe, sf_sent, cmd, wraps, req, rep>>
                 /\ (ep.call.pc = "idle")
                        => /\ ep'.call.pc = "wait"
                           /\ FramesNext(e).req
                                  = Append(Frames(e).req, ConnectionMessage(None, ep'.calls))
                           /\ FramesNext(e).rep = Frames(e).rep
                 /\ (ep'.ran # ep.ran)
                        => /\ ep'.ran = Append(ep.ran, reg.workers[name].func)
                           /\ FramesNext(e).rep = <<Val(ConnectionMessage(None, ep.calls))>>
                 /\ (ep.call.pc = "wait" /\ ep'.call.pc = "idle")
                        => /\ ep'.returned
                                  = Append(ep.returned, Val(ConnectionMessage(None, ep.calls)))
                           /\ FramesNext(e).rep = <<>> ]_vars

C31_Witness ==
    /\ Cardinality(DOMAIN proxy_attrs) >= 2
    /\ ep.call.pc = "idle"
    /\ Len(ep.returned) = 2
    /\ Len(ep.ran) = 2
    /\ ep.ran[1] # ep.ran[2]
    /\ Cardinality(DOMAIN ep.pipes) = 2

(***************************************************************************)
(* Properties of ExecutionContext (SpecContext).                           *)
(***************************************************************************)
\* What ExecutionContext is to issue on entry and on exit, by its flags.
OnEntry ==
    (IF ctx.flags.run THEN <<"run">> ELSE <<>>)
        \o (IF ctx.flags.init THEN <<"init">> ELSE <<>>)
        \o (IF ctx.flags.start THEN <<"start">> ELSE <<>>)

OnExit ==
    (IF ctx.flags.finish THEN <<"finish">> ELSE <<>>)
        \o (IF ctx.flags.close THEN <<"close_service">> ELSE <<>>)

\* C32: when the body starts, run, init and start have been issued in that
\* order, each if and only if its flag is set; when the with statement has
\* ended, finish and then close_service have been issued after the body, each if
\* and only if its flag is set, whether or not the body raised; and if the body
\* raised, the with statement ends in the body's exception.
C32_ContextOrdersCalls ==
    /\ ctx.pc = "body" => ctx.issued = OnEntry
    /\ ctx.pc = "exit" => ctx.issued = OnEntry \o <<"body">>
    /\ ctx.pc = "left" => ctx.issued = OnEntry \o <<"body">> \o OnExit
    /\ (ctx.pc = "left" /\ ctx.body_exc # None) => ctx.raised = ctx.body_exc


====
